---- MODULE Spec2Model ----
(***************************************************************************)
(* A model of linprog2d, the two-dimensional linear programming solver    *)
(* (src/linprog2d.c).  A behaviour is one call of linprog2d_solve on a    *)
(* workspace obtained from linprog2d_create, cut into the steps of the    *)
(* function body (entry and reset, conditioner, categorizer, y-offset     *)
(* form, pruning-loop iterations, endgame).  Earlier uses of the same     *)
(* workspace show only in what its arrays hold: a cell that the call has  *)
(* not written holds an arbitrary value.                                  *)
(*                                                                         *)
(* Doubles are modelled as exact extended rationals <<num, den>>:         *)
(*   den > 0   a finite value in lowest terms,                            *)
(*   <<1,0>>   +infinity (HUGE_VAL),  <<-1,0>>  -infinity,                *)
(*   <<0,0>>   NaN,                                                       *)
(*   <<0,-1>>  an array cell that was never written (indeterminate).      *)
(* The arithmetic follows IEEE-754 for the special values; rounding is    *)
(* not modelled.                                                          *)
(*                                                                         *)
(* Intermediate values are passed as operator parameters, so a C function *)
(* is modelled by a short chain of operators, one per block of its body.  *)
(***************************************************************************)
EXTENDS Integers, Sequences, FiniteSets, TLC

(***************************************************************************)
(* Bounds of the model.                                                    *)
(***************************************************************************)
\* Largest capacity of a workspace and largest number of constraints passed.
MaxN == 3

(***************************************************************************)
(* Doubles.                                                                *)
(***************************************************************************)
RECURSIVE GCD(_, _)
GCD(a, b) == IF b = 0 THEN a ELSE GCD(b, a % b)

IAbs(k) == IF k < 0 THEN -k ELSE k

Sgn(k) == IF k > 0 THEN 1 ELSE IF k < 0 THEN -1 ELSE 0

QDiv(n, d, g) == <<Sgn(d) * Sgn(n) * (IAbs(n) \div g), IAbs(d) \div g>>

\* The double with value n/d, in canonical form.
Q(n, d) == IF d = 0 THEN <<Sgn(n), 0>> ELSE QDiv(n, d, GCD(IAbs(n), IAbs(d)))

I(k) == <<k, 1>>

Zero == <<0, 1>>

One == <<1, 1>>

HUGE_VAL == <<1, 0>>

NaN == <<0, 0>>

Indet == <<0, -1>>

IsNaN(a) == a[2] = 0 /\ a[1] = 0

IsInf(a) == a[2] = 0 /\ a[1] # 0

IsFin(a) == a[2] > 0

Neg(a) == <<-a[1], a[2]>>

\* The sum of two finite values, over the least common denominator (g is the
\* greatest common divisor of the denominators).
AddOver(a, b, g) == Q(a[1] * (b[2] \div g) + b[1] * (a[2] \div g), (a[2] \div g) * b[2])

Add(a, b) ==
    IF IsNaN(a) \/ IsNaN(b) THEN NaN
    ELSE IF IsInf(a) /\ IsInf(b) THEN (IF a[1] = b[1] THEN a ELSE NaN)
    ELSE IF IsInf(a) THEN a
    ELSE IF IsInf(b) THEN b
    ELSE AddOver(a, b, GCD(a[2], b[2]))

Sub(a, b) == Add(a, Neg(b))

\* The product of two finite values, with the common factors g of a's
\* numerator and b's denominator and k of b's numerator and a's denominator
\* cancelled first.
MulOver(a, b, g, k) == Q((a[1] \div g) * (b[1] \div k), (a[2] \div k) * (b[2] \div g))

Mul(a, b) ==
    IF IsNaN(a) \/ IsNaN(b) THEN NaN
    ELSE IF IsFin(a) /\ IsFin(b)
    THEN MulOver(a, b, GCD(IAbs(a[1]), b[2]), GCD(IAbs(b[1]), a[2]))
    ELSE Q(a[1] * b[1], a[2] * b[2])

\* x / y; a zero divisor counts as +0.
Div(a, b) ==
    IF IsNaN(a) \/ IsNaN(b) THEN NaN
    ELSE IF IsInf(b) THEN (IF IsInf(a) THEN NaN ELSE Zero)
    ELSE IF IsInf(a) THEN (IF b[1] < 0 THEN Neg(a) ELSE a)
    ELSE IF b[1] = 0 THEN Q(a[1], 0)
    ELSE Mul(a, Q(b[2], b[1]))

\* The comparison operators of C: every comparison with a NaN is false.
Lt(a, b) ==
    /\ ~IsNaN(a)
    /\ ~IsNaN(b)
    /\ IF a[2] = 0 /\ b[2] = 0 THEN a[1] < b[1]
       ELSE IF a[2] = 0 \/ b[2] = 0 THEN a[1] * b[2] < b[1] * a[2]
       ELSE Sub(a, b)[1] < 0

Gt(a, b) == Lt(b, a)

Le(a, b) == ~IsNaN(a) /\ ~IsNaN(b) /\ ~Lt(b, a)

Ge(a, b) == Le(b, a)

fabs(a) == <<IAbs(a[1]), a[2]>>

fmax_(x, y) == IF Gt(x, y) THEN x ELSE y

fmin_(x, y) == IF Lt(x, y) THEN x ELSE y

\* sqrt of a double that is the square of a rational (the objectives of the
\* model are chosen so that x*x + y*y is such a square).
ISqrt(k) == CHOOSE r \in 0..k : r * r = k

sqrt(a) == IF IsFin(a) THEN Q(ISqrt(a[1]), ISqrt(a[2])) ELSE a

hypot_(x, y) == sqrt(Add(Mul(x, x), Mul(y, y)))

\* dlt < MAX_EPS_ABS, or dlt < MAX_EPS_REL * m: the tolerances 1e-30 and
\* 1e-15 * m are smaller than the distance of any two different values that
\* the bounded inputs produce, so a difference is below them iff it is zero.
\* An infinite or NaN difference is below neither.
BelowEps(dlt) == IsFin(dlt) /\ dlt[1] = 0

feq_(x, y) == BelowEps(fabs(Sub(x, y)))

(***************************************************************************)
(* 2D vectors and matrices.                                                *)
(***************************************************************************)
vec2_create(x, y) == [x |-> x, y |-> y]

mat22_create(a11, a12, a21, a22) == [a11 |-> a11, a12 |-> a12, a21 |-> a21, a22 |-> a22]

\* The transposed matrix: the rotation by the opposite angle.
RotTransposed(x, y, h) == mat22_create(Div(y, h), Div(x, h), Div(Neg(x), h), Div(y, h))

\* The matrix of mat22_rot for h = hypot_(x, y).
RotOver(x, y, h) == mat22_create(Div(y, h), Div(Neg(x), h), Div(x, h), Div(y, h))

mat22_rot(x, y) == RotOver(x, y, hypot_(x, y))

(***************************************************************************)
(* Result datastructure helper functions.                                  *)
(***************************************************************************)
LP2D_ERROR == "ERROR"

LP2D_INFEASIBLE == "INFEASIBLE"

LP2D_UNBOUNDED == "UNBOUNDED"

LP2D_EDGE == "EDGE"

LP2D_POINT == "POINT"

linprog2d_result_create(status, x1, y1, x2, y2) ==
    [status |-> status, x1 |-> x1, y1 |-> y1, x2 |-> x2, y2 |-> y2]

linprog2d_result_err == linprog2d_result_create(LP2D_ERROR, Zero, Zero, Zero, Zero)

linprog2d_result_infeasible ==
    linprog2d_result_create(LP2D_INFEASIBLE, Zero, Zero, Zero, Zero)

linprog2d_result_unbounded ==
    linprog2d_result_create(LP2D_UNBOUNDED, Zero, Zero, Zero, Zero)

\* The multiplication with the transpose of R (lines 182-183).
RotateBack(R, xt, yt) ==
    vec2_create(Add(Mul(R.a11, xt), Mul(R.a21, yt)),
                Add(Mul(R.a12, xt), Mul(R.a22, yt)))

\* Undo the offset, then rotate back.
linprog2d_result_transform_back(R, o, x, y) == RotateBack(R, Add(x, o.x), Add(y, o.y))

\* PointResult with the point written to both pairs.
PointResultTwice(p) == linprog2d_result_create(LP2D_POINT, p.x, p.y, p.x, p.y)

PointResult(p) == linprog2d_result_create(LP2D_POINT, p.x, p.y, Zero, Zero)

linprog2d_result_point(R, o, x, y) ==
    PointResult(linprog2d_result_transform_back(R, o, x, y))

EdgeResult(p, q) == linprog2d_result_create(LP2D_EDGE, p.x, p.y, q.x, q.y)

linprog2d_result_edge(R, o, x1, y1, x2, y2) ==
    EdgeResult(linprog2d_result_transform_back(R, o, x1, y1),
               linprog2d_result_transform_back(R, o, x2, y2))

(***************************************************************************)
(* Linear time median algorithm.  An array is a function on 0..cap-1; a    *)
(* pointer d + base is the pair (d, base).                                 *)
(***************************************************************************)
SWAP(d, x, y) == [d EXCEPT ![x] = d[y], ![y] = d[x]]

SWAP_IF_GT(d, x, y) == IF Lt(d[y], d[x]) THEN SWAP(d, x, y) ELSE d

\* The compare-and-swap steps of sort() for each length.
SortNetwork(len) ==
    CASE len = 2 -> <<<<0, 1>>>>
      [] len = 3 -> <<<<1, 2>>, <<0, 2>>, <<0, 1>>>>
      [] len = 4 -> <<<<0, 1>>, <<2, 3>>, <<0, 2>>, <<1, 3>>, <<1, 2>>>>
      [] len = 5 -> <<<<0, 1>>, <<3, 4>>, <<2, 4>>, <<2, 3>>, <<0, 3>>,
                      <<0, 2>>, <<1, 4>>, <<1, 3>>, <<1, 2>>>>
      [] OTHER -> <<>>

RECURSIVE SortSteps(_, _, _, _)
SortSteps(d, base, net, s) ==
    IF s > Len(net) THEN d
    ELSE SortSteps(SWAP_IF_GT(d, base + net[s][1], base + net[s][2]), base, net, s + 1)

sort(d, base, len) == SortSteps(d, base, SortNetwork(len), 1)

\* partition(): the loop over i with the cursors l and r; r is unsigned, the
\* model stops at r = -1 where the C code would wrap around.
RECURSIVE PartitionLoop(_, _, _, _, _, _)
PartitionLoop(d, base, piviot, i, l, r) ==
    IF i > r THEN [d |-> d, l |-> l]
    ELSE IF Lt(d[base + i], piviot)
         THEN PartitionLoop(SWAP(d, base + l, base + i), base, piviot, i + 1, l + 1, r)
    ELSE IF Gt(d[base + i], piviot)
         THEN PartitionLoop(SWAP(d, base + r, base + i), base, piviot, i, l, r - 1)
    ELSE PartitionLoop(d, base, piviot, i + 1, l, r)

\* partition() that leaves the larger values where they are.
PartitionNoRight(d, base, len, piviot) == PartitionLoop(d, base, piviot, 0, 0, 0)

partition(d, base, len, piviot) == PartitionLoop(d, base, piviot, 0, 0, len - 1)

RECURSIVE kth_smallest(_, _, _, _)
RECURSIVE median(_, _, _)
RECURSIVE GroupsOfFive(_, _, _, _, _)
\* The loop "for (i = 0; i + 5 <= len; i += 5, j++)" of kth_smallest.
GroupsOfFive(d, base, len, i, j) ==
    IF i + 5 > len THEN [d |-> d, j |-> j]
    ELSE GroupsOfFive(SWAP(median(d, base + i, 5).d, base + i + 2, base + j),
                      base, len, i + 5, j + 1)

\* "sort(d, len); return d[k];" with s the array as sorted.
KthSorted(s, base, k) == [d |-> s, v |-> s[base + k]]

\* KthSelect that keeps k when it continues to the right of the piviot.
KthSelectSameRank(p, piviot, base, len, k) ==
    IF p.l = k THEN [d |-> p.d, v |-> piviot]
    ELSE IF p.l > k THEN kth_smallest(p.d, base, p.l, k)
    ELSE kth_smallest(p.d, base + p.l + 1, len - p.l - 1, k - p.l)

\* Lines 328-334, with p the outcome of partition().
KthSelect(p, piviot, base, len, k) ==
    IF p.l = k THEN [d |-> p.d, v |-> piviot]
    ELSE IF p.l > k THEN kth_smallest(p.d, base, p.l, k)
    ELSE kth_smallest(p.d, base + p.l + 1, len - p.l - 1, k - p.l - 1)

\* Line 327, with m the median of the medians.
KthPartition(m, base, len, k) ==
    KthSelect(partition(m.d, base, len, m.v), m.v, base, len, k)

\* Line 321, with g the outcome of the loop over the groups of five.
KthPivot(g, base, len, k) == KthPartition(median(g.d, base, g.j), base, len, k)

\* Returns the array as permuted and the value found: [d, v].
kth_smallest(d, base, len, k) ==
    IF len <= 5 THEN KthSorted(sort(d, base, len), base, k)
    ELSE KthPivot(GroupsOfFive(d, base, len, 0, 0), base, len, k)

median(d, base, len) == kth_smallest(d, base, len, len \div 2)

(***************************************************************************)
(* The workspace (struct linprog2d_data) and the state of a call.          *)
(***************************************************************************)
VARIABLES
    pc,              \* position in linprog2d_solve: idle, condition, categorize,
                     \* yoffset, loop, done
    prog_,           \* the pointer passed as workspace: "NULL", "prog", or
                     \* "freed" once linprog2d_free has released it
    prog,            \* the struct linprog2d_data behind it
    args,            \* the arguments cx, cy, Gx, Gy, h, n of the call
    x,               \* local x of linprog2d_solve (the last median)
    y,               \* local y of linprog2d_solve
    optimum_is_left, \* local flag of linprog2d_solve
    has_median,      \* local flag of linprog2d_solve
    res,             \* the returned linprog2d_result_t
    calls,           \* the number of calls of linprog2d_solve made so far
    iterations,      \* the iterations of the while loop made by this call
    heap             \* the number of blocks that malloc has handed out and
                     \* free has not taken back

vars == <<pc, prog_, prog, args, x, y, optimum_is_left, has_median, res, calls, iterations, heap>>

\* Unsigned cursors: a negative number k stands for the wrapped value 2^32 + k.
UGt(a, b) == IF (a < 0) = (b < 0) THEN a > b ELSE a < 0

linprog2d_reset(p, n) ==
    [p EXCEPT !.ceil_len = 0, !.floor_len = 0, !.x0 = Neg(HUGE_VAL), !.x1 = HUGE_VAL,
              !.intersect_len = 0,
              !.R = mat22_create(Zero, Zero, Zero, Zero),
              !.o = vec2_create(Zero, Zero),
              !.n = n]

\* linprog2d_init_internal: the arrays are carved out of the memory passed in,
\* their content is whatever that memory holds; the other fields are reset.
linprog2d_init_internal(capacity) ==
    linprog2d_reset(
        [Gx |-> [i \in 0..(capacity - 1) |-> Indet],
         Gy |-> [i \in 0..(capacity - 1) |-> Indet],
         h |-> [i \in 0..(capacity - 1) |-> Indet],
         dx |-> [i \in 0..(capacity - 1) |-> Indet],
         y0 |-> [i \in 0..(capacity - 1) |-> Indet],
         x_intersect |-> [i \in 0..((capacity \div 2) - 1) |-> Indet],
         ceil |-> [i \in 0..(capacity - 1) |-> -1],
         floor |-> [i \in 0..(capacity - 1) |-> -1],
         tmp |-> [i \in 0..(capacity - 1) |-> -1],
         x0 |-> Zero, x1 |-> Zero,
         ceil_len |-> 0, floor_len |-> 0, intersect_len |-> 0,
         capacity |-> capacity,
         R |-> mat22_create(Zero, Zero, Zero, Zero),
         o |-> vec2_create(Zero, Zero),
         n |-> 0], 0)

linprog2d_normalization_coeff(Gx, Gy) == fmax_(fabs(Gx), fabs(Gy))

(***************************************************************************)
(* linprog2d_condition_problem.  src[i] is the caller's <<Gx[i], Gy[i],    *)
(* h[i]>>.  The accumulator a holds the target arrays, the write cursor    *)
(* i_tar, G.T*G, G.T*h and ok = FALSE once the function has returned FALSE.*)
(***************************************************************************)
\* Lines 546-557: the sums are updated and the constraint is stored.
ConditionStore(a, Gx, Gy, h) ==
    [a EXCEPT !.GTG.a11 = Add(@, Mul(Gx, Gx)),
              !.GTG.a12 = Add(@, Mul(Gx, Gy)),
              !.GTG.a22 = Add(@, Mul(Gy, Gy)),
              !.GTc.x = Add(@, Mul(Gx, h)),
              !.GTc.y = Add(@, Mul(Gy, h)),
              !.Gx[a.i_tar] = Gx,
              !.Gy[a.i_tar] = Gy,
              !.h[a.i_tar] = h,
              !.i_tar = @ + 1]

\* The conditioner without line 544.
ConditionNoNormalize(a, Gx, Gy, h, norm) == ConditionStore(a, Gx, Gy, h)

\* Line 544.
ConditionNormalize(a, Gx, Gy, h, norm) ==
    ConditionStore(a, Div(Gx, norm), Div(Gy, norm), Div(h, norm))

\* Lines 530-557 for the rotated constraint (Gx, Gy, h): skip marks a
\* constraint that is dropped, ok = FALSE the return of FALSE.
ConditionOne(a, Gx, Gy, h) ==
    IF feq_(Gx, Zero) /\ feq_(Gy, Zero)
    THEN (IF Le(h, Zero) THEN a ELSE [a EXCEPT !.ok = FALSE])
    ELSE ConditionNormalize(a, Gx, Gy, h, linprog2d_normalization_coeff(Gx, Gy))

\* Lines 526-528.
ConditionRotate(R, a, sGx, sGy, sh) ==
    ConditionOne(a, Add(Mul(R.a11, sGx), Mul(R.a12, sGy)),
                    Add(Mul(R.a21, sGx), Mul(R.a22, sGy)), sh)

\* The loop of lines 524-558; it ends where the function returns FALSE.
RECURSIVE ConditionLoop(_, _, _, _, _)
ConditionLoop(R, src, n, i, a) ==
    IF i >= n \/ ~a.ok THEN a
    ELSE ConditionLoop(R, src, n, i + 1,
                       ConditionRotate(R, a, src[i][1], src[i][2], src[i][3]))

\* Lines 566-569.
OffsetOver(GTG, GTc, GTG_det) ==
    IF GTG_det # Zero
    THEN vec2_create(
           Div(Sub(Mul(GTG.a22, GTc.x), Mul(GTG.a12, GTc.y)), GTG_det),
           Div(Add(Mul(Neg(GTG.a12), GTc.x), Mul(GTG.a22, GTc.y)), GTG_det))
    ELSE vec2_create(Zero, Zero)

\* o = (G.T G)^-1 G.T h as the code computes it (lines 565-569).
ConditionOffset(GTG, GTc) ==
    OffsetOver(GTG, GTc, Sub(Mul(GTG.a11, GTG.a22), Mul(GTG.a12, GTG.a12)))

\* Lines 572-579.
ConditionShift(p, R, a, o) ==
    [p EXCEPT !.Gx = a.Gx, !.Gy = a.Gy, !.n = a.i_tar, !.R = R, !.o = o,
              !.h = [i \in DOMAIN a.h |->
                       IF i < a.i_tar
                       THEN Sub(a.h[i], Add(Mul(o.x, a.Gx[i]), Mul(o.y, a.Gy[i])))
                       ELSE a.h[i]]]

\* The workspace and the value returned, for the outcome a of the loop.
ConditionFinish(p, R, a) ==
    IF ~a.ok
    THEN [prog |-> [p EXCEPT !.Gx = a.Gx, !.Gy = a.Gy, !.h = a.h], ok |-> FALSE]
    ELSE [prog |-> ConditionShift(p, R, a, ConditionOffset(a.GTG, a.GTc)), ok |-> TRUE]

ConditionWith(p, R, src) ==
    ConditionFinish(p, R,
      ConditionLoop(R, src, p.n, 0,
        [Gx |-> p.Gx, Gy |-> p.Gy, h |-> p.h, i_tar |-> 0, ok |-> TRUE,
         GTG |-> mat22_create(Zero, Zero, Zero, Zero),
         GTc |-> vec2_create(Zero, Zero)]))

\* Returns [prog, ok]: the workspace as the function leaves it and its result.
linprog2d_condition_problem(p, cx, cy, src) == ConditionWith(p, mat22_rot(cx, cy), src)

(***************************************************************************)
(* Categorizer and y-offset form.                                          *)
(***************************************************************************)
CAT_VERT_LEFT == "VERT_LEFT"

CAT_VERT_RIGHT == "VERT_RIGHT"

CAT_CEIL == "CEIL"

CAT_FLOOR == "FLOOR"

\* The category without the test for a vertical constraint.
CategoryWithoutVertical(Gx, Gy) == IF Gt(Gy, Zero) THEN CAT_FLOOR ELSE CAT_CEIL

linprog2d_constraint_category(Gx, Gy) ==
    IF feq_(Gy, Zero)
    THEN (IF Gt(Gx, Zero) THEN CAT_VERT_LEFT ELSE CAT_VERT_RIGHT)
    ELSE IF Gt(Gy, Zero) THEN CAT_FLOOR
    ELSE CAT_CEIL

\* The switch of lines 614-627 for constraint i of category cat.
CategorizeOne(p, i, cat) ==
    CASE cat = CAT_VERT_LEFT -> [p EXCEPT !.x0 = fmax_(p.x0, Div(p.h[i], p.Gx[i]))]
      [] cat = CAT_VERT_RIGHT -> [p EXCEPT !.x1 = fmin_(p.x1, Div(p.h[i], p.Gx[i]))]
      [] cat = CAT_CEIL -> [p EXCEPT !.ceil[p.ceil_len] = i, !.ceil_len = @ + 1]
      [] cat = CAT_FLOOR -> [p EXCEPT !.floor[p.floor_len] = i, !.floor_len = @ + 1]

RECURSIVE CategorizeLoop(_, _)
CategorizeLoop(p, i) ==
    IF i >= p.n THEN p
    ELSE CategorizeLoop(
           CategorizeOne(p, i, linprog2d_constraint_category(p.Gx[i], p.Gy[i])), i + 1)

\* "return prog->x0 <= prog->x1;"
CategorizeVerdict(p) == [prog |-> p, ok |-> Le(p.x0, p.x1)]

\* Returns [prog, ok] with ok the value returned.
linprog2d_categorize_constraints(p) == CategorizeVerdict(CategorizeLoop(p, 0))

RECURSIVE linprog2d_calculate_yoffset_form(_, _, _, _)
linprog2d_calculate_yoffset_form(p, idcs, idcs_len, i) ==
    IF i >= idcs_len THEN p
    ELSE linprog2d_calculate_yoffset_form(
           [p EXCEPT !.dx[idcs[i]] = Div(Neg(p.Gx[idcs[i]]), p.Gy[idcs[i]]),
                     !.y0[idcs[i]] = Div(p.h[idcs[i]], p.Gy[idcs[i]])],
           idcs, idcs_len, i + 1)

(***************************************************************************)
(* Pairing and pruning.                                                    *)
(***************************************************************************)
\* Lines 657-662.
IntersectOver(num_x, num_y, den) ==
    IF feq_(den, Zero) THEN [ok |-> FALSE, x |-> Zero, y |-> Zero]
    ELSE [ok |-> TRUE, x |-> Div(num_x, den), y |-> Div(num_y, den)]

\* Returns [ok, x, y]; ok = FALSE for parallel lines.
linprog2d_calculate_intersect(Gx1, Gy1, h1, Gx2, Gy2, h2) ==
    IntersectOver(Sub(Mul(h1, Gy2), Mul(h2, Gy1)),
                  Sub(Mul(h2, Gx1), Mul(h1, Gx2)),
                  Sub(Mul(Gx1, Gy2), Mul(Gx2, Gy1)))

\* "int dir = (optimum_is_left ? 1 : -1) * (is_ceil ? 1 : -1);"
EliminateDir(is_ceil, opt_is_left) ==
    (IF opt_is_left THEN 1 ELSE -1) * (IF is_ceil THEN 1 ELSE -1)

\* linprog2d_eliminate_constraint with the sign of dir inverted: of two
\* crossing constraints it keeps the one the code drops.
EliminateMirrored(h, dx, ci0, ci1, is_ceil, is_parallel, opt_is_left) ==
    IF is_parallel
    THEN (IF Ge(h[ci0], h[ci1]) THEN ci0 ELSE ci1)
    ELSE IF Ge(Mul(I(-EliminateDir(is_ceil, opt_is_left)), dx[ci0]),
               Mul(I(-EliminateDir(is_ceil, opt_is_left)), dx[ci1]))
         THEN ci0 ELSE ci1

linprog2d_eliminate_constraint(h, dx, ci0, ci1, is_ceil, is_parallel, opt_is_left) ==
    IF is_parallel
    THEN (IF Ge(h[ci0], h[ci1]) THEN ci0 ELSE ci1)
    ELSE IF Ge(Mul(I(EliminateDir(is_ceil, opt_is_left)), dx[ci0]),
               Mul(I(EliminateDir(is_ceil, opt_is_left)), dx[ci1]))
         THEN ci0 ELSE ci1

\* The elimination left out: both constraints of the pair are kept as a pair,
\* without an intersection point.
IntersectsSingleKeepsBoth(p, st, ci0, ci1, is_ceil, is_parallel, opt_is_left) ==
    [st EXCEPT !.tmp[st.i_tar_pair] = ci0,
               !.tmp[st.i_tar_pair + 1] = ci1,
               !.i_tar_pair = @ + 2]

\* The elimination writing both constraints of the pair to the back of tmp.
IntersectsSingleTwice(p, st, ci0, ci1, is_ceil, is_parallel, opt_is_left) ==
    [st EXCEPT !.tmp[st.i_tar_single] = ci0,
               !.tmp[st.i_tar_single - 1] = ci1,
               !.i_tar_single = @ - 2]

\* "tmp[i_tar_single--] = linprog2d_eliminate_constraint(...)".  st holds tmp,
\* the two write cursors, x_intersect and intersect_len.
IntersectsSingle(p, st, ci0, ci1, is_ceil, is_parallel, opt_is_left) ==
    [st EXCEPT !.tmp[st.i_tar_single] =
                   linprog2d_eliminate_constraint(p.h, p.dx, ci0, ci1, is_ceil,
                                                  is_parallel, opt_is_left),
               !.i_tar_single = @ - 1]

\* Lines 738-739.
IntersectsKeep(st, ci0, ci1, ix) ==
    [st EXCEPT !.x_intersect[st.intersect_len] = ix,
               !.intersect_len = @ + 1,
               !.tmp[st.i_tar_pair] = ci0,
               !.tmp[st.i_tar_pair + 1] = ci1,
               !.i_tar_pair = @ + 2]

\* IntersectsDecide without the tests against the last median: a pair that
\* crosses at the median is kept.
IntersectsDecideNoMedian(p, is_ceil, has_med, mx, opt_is_left, st, ci0, ci1, s) ==
    IF ~s.ok THEN IntersectsSingle(p, st, ci0, ci1, is_ceil, TRUE, FALSE)
    ELSE IF Lt(s.x, p.x0)
    THEN IntersectsSingle(p, st, ci0, ci1, is_ceil, FALSE, FALSE)
    ELSE IF Gt(s.x, p.x1)
    THEN IntersectsSingle(p, st, ci0, ci1, is_ceil, FALSE, TRUE)
    ELSE IntersectsKeep(st, ci0, ci1, s.x)

\* The four cases of lines 722-740 for the pair (ci0, ci1) with intersection s.
IntersectsDecide(p, is_ceil, has_med, mx, opt_is_left, st, ci0, ci1, s) ==
    IF ~s.ok THEN IntersectsSingle(p, st, ci0, ci1, is_ceil, TRUE, FALSE)
    ELSE IF Lt(s.x, p.x0) \/ (has_med /\ feq_(s.x, mx) /\ ~opt_is_left)
    THEN IntersectsSingle(p, st, ci0, ci1, is_ceil, FALSE, FALSE)
    ELSE IF Gt(s.x, p.x1) \/ (has_med /\ feq_(s.x, mx) /\ opt_is_left)
    THEN IntersectsSingle(p, st, ci0, ci1, is_ceil, FALSE, TRUE)
    ELSE IntersectsKeep(st, ci0, ci1, s.x)

IntersectsPair(p, is_ceil, has_med, mx, opt_is_left, st, ci0, ci1) ==
    IntersectsDecide(p, is_ceil, has_med, mx, opt_is_left, st, ci0, ci1,
      linprog2d_calculate_intersect(p.Gx[ci0], p.Gy[ci0], p.h[ci0],
                                    p.Gx[ci1], p.Gy[ci1], p.h[ci1]))

\* The loop over the pairs (lines 720-741).
RECURSIVE IntersectsLoop(_, _, _, _, _, _, _, _, _)
IntersectsLoop(p, idcs, idcs_len, is_ceil, has_med, mx, opt_is_left, i, st) ==
    IF i >= idcs_len \div 2 THEN st
    ELSE IntersectsLoop(p, idcs, idcs_len, is_ceil, has_med, mx, opt_is_left, i + 1,
           IntersectsPair(p, is_ceil, has_med, mx, opt_is_left, st,
                          idcs[2 * i], idcs[2 * i + 1]))

\* Lines 746-748: the unpaired last constraint.
IntersectsOdd(idcs, idcs_len, st) ==
    IF idcs_len % 2 = 1
    THEN [st EXCEPT !.tmp[st.i_tar_single] = idcs[idcs_len - 1], !.i_tar_single = @ - 1]
    ELSE st

\* "for (i = 0U; i < i_tar_pair; i++) idcs[(*idcs_len)++] = tmp[i];"
RECURSIVE ReassemblePairs(_, _, _, _, _)
ReassemblePairs(idcs, len, tmp, i_tar_pair, i) ==
    IF i >= i_tar_pair THEN [idcs |-> idcs, len |-> len]
    ELSE ReassemblePairs([idcs EXCEPT ![len] = tmp[i]], len + 1, tmp, i_tar_pair, i + 1)

\* "for (i = prog->n - 1U; i > i_tar_single; i--) idcs[(*idcs_len)++] = tmp[i];"
RECURSIVE ReassembleSingles(_, _, _, _, _)
ReassembleSingles(idcs, len, tmp, i_tar_single, i) ==
    IF ~UGt(i, i_tar_single) THEN [idcs |-> idcs, len |-> len]
    ELSE ReassembleSingles([idcs EXCEPT ![len] = tmp[i]], len + 1, tmp, i_tar_single, i - 1)

\* The second loop reading tmp upwards: the survivors in the reverse order.
RECURSIVE ReassembleSinglesUp(_, _, _, _, _)
ReassembleSinglesUp(idcs, len, tmp, i, n) ==
    IF i >= n THEN [idcs |-> idcs, len |-> len]
    ELSE ReassembleSinglesUp([idcs EXCEPT ![len] = tmp[i]], len + 1, tmp, i + 1, n)

ReassembleTailUp(r, st, n) ==
    ReassembleSinglesUp(r.idcs, r.len, st.tmp, st.i_tar_single + 1, n)

\* The second loop of the reassembly, after the first has produced r.
ReassembleTail(r, st, n) == ReassembleSingles(r.idcs, r.len, st.tmp, st.i_tar_single, n - 1)

\* What the function leaves: prog with tmp, x_intersect and intersect_len
\* updated, and the list r as rewritten in place.
IntersectsReturn(p, st, r) ==
    [prog |-> [p EXCEPT !.tmp = st.tmp, !.x_intersect = st.x_intersect,
                        !.intersect_len = st.intersect_len],
     idcs |-> r.idcs, idcs_len |-> r.len]

\* Lines 750-757.
IntersectsReassemble(p, idcs, st) ==
    IntersectsReturn(p, st,
      ReassembleTail(ReassemblePairs(idcs, 0, st.tmp, st.i_tar_pair, 0), st, p.n))

\* Returns [prog, idcs, idcs_len].
linprog2d_calculate_intersects(p, idcs, idcs_len, is_ceil, has_med, mx, opt_is_left) ==
    IntersectsReassemble(p, idcs,
      IntersectsOdd(idcs, idcs_len,
        IntersectsLoop(p, idcs, idcs_len, is_ceil, has_med, mx, opt_is_left, 0,
          [tmp |-> p.tmp, i_tar_pair |-> 0, i_tar_single |-> p.n - 1,
           x_intersect |-> p.x_intersect, intersect_len |-> p.intersect_len])))

(***************************************************************************)
(* Locating the optimum relative to the median.                            *)
(***************************************************************************)
\* The body of the loop of linprog2d_track_extrema for slope dxj and value yv.
TrackOne(e, dxj, yv, compute_min) ==
    IF feq_(yv, e.y)
    THEN [e EXCEPT !.max_dx = fmax_(dxj, e.max_dx), !.min_dx = fmin_(dxj, e.min_dx)]
    ELSE IF (compute_min /\ Lt(yv, e.y)) \/ (~compute_min /\ Gt(yv, e.y))
    THEN [e EXCEPT !.y = yv, !.min_dx = dxj, !.max_dx = dxj]
    ELSE e

RECURSIVE TrackLoop(_, _, _, _, _, _, _, _)
TrackLoop(xv, dx, y0, idcs, idcs_len, compute_min, i, e) ==
    IF i >= idcs_len THEN e
    ELSE TrackLoop(xv, dx, y0, idcs, idcs_len, compute_min, i + 1,
           TrackOne(e, dx[idcs[i]], Add(y0[idcs[i]], Mul(dx[idcs[i]], xv)), compute_min))

linprog2d_track_extrema(xv, dx, y0, idcs, idcs_len, compute_min) ==
    TrackLoop(xv, dx, y0, idcs, idcs_len, compute_min, 0,
      [y |-> IF compute_min THEN HUGE_VAL ELSE Neg(HUGE_VAL),
       min_dx |-> HUGE_VAL, max_dx |-> Neg(HUGE_VAL), valid |-> idcs_len > 0])

LOC_INFEASIBLE == "LOC_INFEASIBLE"

LOC_LEFT == "LOC_LEFT"

LOC_RIGHT == "LOC_RIGHT"

LOC_HERE == "LOC_HERE"

LOC_HERE_EDGE == "LOC_HERE_EDGE"

\* LocateFrom with the last two cases exchanged: a rising floor sends the
\* search to the right, a falling floor to the left.
LocateFromMirrored(e_ceil, e_floor, yIn) ==
    IF e_ceil.valid /\ Lt(e_ceil.y, e_floor.y)
    THEN [loc |-> IF Gt(e_floor.min_dx, e_ceil.max_dx) THEN LOC_LEFT
                  ELSE IF Lt(e_floor.max_dx, e_ceil.min_dx) THEN LOC_RIGHT
                  ELSE LOC_INFEASIBLE,
          y |-> yIn]
    ELSE IF feq_(e_floor.min_dx, Zero) /\ ~feq_(e_floor.max_dx, Zero)
    THEN [loc |-> LOC_LEFT, y |-> yIn]
    ELSE IF feq_(e_floor.max_dx, Zero) /\ ~feq_(e_floor.min_dx, Zero)
    THEN [loc |-> LOC_RIGHT, y |-> yIn]
    ELSE IF feq_(e_floor.max_dx, Zero) /\ feq_(e_floor.min_dx, Zero)
    THEN [loc |-> LOC_HERE_EDGE, y |-> yIn]
    ELSE IF Lt(e_floor.min_dx, Zero) /\ Gt(e_floor.max_dx, Zero)
    THEN [loc |-> LOC_HERE, y |-> e_floor.y]
    ELSE IF Gt(e_floor.min_dx, Zero)
    THEN [loc |-> LOC_RIGHT, y |-> yIn]
    ELSE [loc |-> LOC_LEFT, y |-> yIn]

\* Lines 835-868 for the two extrema; yIn is *y on entry.
LocateFrom(e_ceil, e_floor, yIn) ==
    IF e_ceil.valid /\ Lt(e_ceil.y, e_floor.y)
    THEN [loc |-> IF Gt(e_floor.min_dx, e_ceil.max_dx) THEN LOC_LEFT
                  ELSE IF Lt(e_floor.max_dx, e_ceil.min_dx) THEN LOC_RIGHT
                  ELSE LOC_INFEASIBLE,
          y |-> yIn]
    ELSE IF feq_(e_floor.min_dx, Zero) /\ ~feq_(e_floor.max_dx, Zero)
    THEN [loc |-> LOC_LEFT, y |-> yIn]
    ELSE IF feq_(e_floor.max_dx, Zero) /\ ~feq_(e_floor.min_dx, Zero)
    THEN [loc |-> LOC_RIGHT, y |-> yIn]
    ELSE IF feq_(e_floor.max_dx, Zero) /\ feq_(e_floor.min_dx, Zero)
    THEN [loc |-> LOC_HERE_EDGE, y |-> yIn]
    ELSE IF Lt(e_floor.min_dx, Zero) /\ Gt(e_floor.max_dx, Zero)
    THEN [loc |-> LOC_HERE, y |-> e_floor.y]
    ELSE IF Gt(e_floor.min_dx, Zero)
    THEN [loc |-> LOC_LEFT, y |-> yIn]
    ELSE [loc |-> LOC_RIGHT, y |-> yIn]

\* Returns [loc, y]: the value returned and *y.
linprog2d_locate_optimum(p, mx, yIn) ==
    LocateFrom(linprog2d_track_extrema(mx, p.dx, p.y0, p.ceil, p.ceil_len, TRUE),
               linprog2d_track_extrema(mx, p.dx, p.y0, p.floor, p.floor_len, FALSE),
               yIn)

(***************************************************************************)
(* The edge resolver.                                                      *)
(***************************************************************************)
\* Lines 898-901, after x0 has been handled.
EdgeTightenX1(p, j, is_ceil, rx1) ==
    IF ((is_ceil /\ Lt(p.dx[j], Zero)) \/ (~is_ceil /\ Gt(p.dx[j], Zero)))
       /\ Lt(rx1, p.x1)
    THEN [p EXCEPT !.x1 = rx1] ELSE p

\* Lines 894-897.
EdgeTightenX0(p, j, is_ceil, rx1) ==
    IF ((is_ceil /\ Gt(p.dx[j], Zero)) \/ (~is_ceil /\ Lt(p.dx[j], Zero)))
       /\ Gt(rx1, p.x0)
    THEN [p EXCEPT !.x0 = rx1] ELSE p

\* Lines 892-902 for the intersection s of if0 and j.
EdgeTighten(p, j, is_ceil, s) ==
    IF s.ok THEN EdgeTightenX1(EdgeTightenX0(p, j, is_ceil, s.x), j, is_ceil, s.x)
    ELSE p

\* The body of the loop of linprog2d_calculate_edge_intersections.
EdgeIntersectOne(p, if0, j, is_ceil) ==
    IF j = if0 THEN p
    ELSE EdgeTighten(p, j, is_ceil,
           linprog2d_calculate_intersect(p.Gx[if0], p.Gy[if0], p.h[if0],
                                         p.Gx[j], p.Gy[j], p.h[j]))

RECURSIVE linprog2d_calculate_edge_intersections(_, _, _, _, _, _)
linprog2d_calculate_edge_intersections(p, idcs, idcs_len, if0, is_ceil, i) ==
    IF i >= idcs_len THEN p
    ELSE linprog2d_calculate_edge_intersections(
           EdgeIntersectOne(p, if0, idcs[i], is_ceil), idcs, idcs_len, if0, is_ceil, i + 1)

\* Lines 919-925: t = [if0, ry0].
RECURSIVE TopHorizontalFloor(_, _, _)
TopHorizontalFloor(p, i, t) ==
    IF i >= p.floor_len THEN t
    ELSE IF feq_(p.dx[p.floor[i]], Zero) /\ Gt(p.y0[p.floor[i]], t.ry0)
    THEN TopHorizontalFloor(p, i + 1, [if0 |-> p.floor[i], ry0 |-> p.y0[p.floor[i]]])
    ELSE TopHorizontalFloor(p, i + 1, t)

\* "if (feq_(prog->x0, prog->x1))" of linprog2d_calculate_edge.
EdgeIsPoint(x0, x1) == feq_(x0, x1)

\* Lines 935-941.
EdgeReturn(p, ry0) ==
    [prog |-> p,
     res |-> IF EdgeIsPoint(p.x0, p.x1)
             THEN linprog2d_result_point(p.R, p.o, p.x0, ry0)
             ELSE linprog2d_result_edge(p.R, p.o, p.x0, ry0, p.x1, ry0)]

\* Line 931.
EdgeFloors(p, t) ==
    EdgeReturn(linprog2d_calculate_edge_intersections(p, p.floor, p.floor_len,
                                                      t.if0, FALSE, 0), t.ry0)

\* Line 929.
EdgeCeils(p, t) ==
    EdgeFloors(linprog2d_calculate_edge_intersections(p, p.ceil, p.ceil_len,
                                                      t.if0, TRUE, 0), t)

\* Returns [prog, res]; mx is not used by the code.
linprog2d_calculate_edge(p, mx) ==
    EdgeCeils(p, TopHorizontalFloor(p, 0, [if0 |-> 0, ry0 |-> Neg(HUGE_VAL)]))

(***************************************************************************)
(* The endgame.                                                            *)
(***************************************************************************)
\* Lines 965-978 for the intersection s of the ceiling ic0 and the floor if0:
\* the bounds x0, x1 and whether the function returns INFEASIBLE here.
EndgameCeil(p, ic0, if0, s) ==
    IF s.ok
    THEN (IF Gt(p.dx[if0], p.dx[ic0])
          THEN [x0 |-> p.x0, x1 |-> fmin_(p.x1, s.x), infeasible |-> FALSE]
          ELSE [x0 |-> fmax_(p.x0, s.x), x1 |-> p.x1, infeasible |-> FALSE])
    ELSE [x0 |-> p.x0, x1 |-> p.x1,
          infeasible |-> ~feq_(p.y0[if0], p.y0[ic0]) /\ Gt(p.y0[if0], p.y0[ic0])]

\* Lines 963-979.
EndgameBounds(p) ==
    IF p.ceil_len > 0
    THEN EndgameCeil(p, p.ceil[0], p.floor[0],
           linprog2d_calculate_intersect(
             p.Gx[p.ceil[0]], p.Gy[p.ceil[0]], p.h[p.ceil[0]],
             p.Gx[p.floor[0]], p.Gy[p.floor[0]], p.h[p.floor[0]]))
    ELSE [x0 |-> p.x0, x1 |-> p.x1, infeasible |-> FALSE]

\* "if (x0 > -HUGE_VAL && x1 < HUGE_VAL)": the horizontal floor gives an edge.
EndgameHorizontal(x0, x1) == Gt(x0, Neg(HUGE_VAL)) /\ Lt(x1, HUGE_VAL)

\* EndgameLowest without the tests for an open bound on the side of the
\* minimum.
EndgameLowestClosed(p, dxf, x0, x1, ry0, ry1) ==
    IF feq_(dxf, Zero)
    THEN (IF EndgameHorizontal(x0, x1)
          THEN linprog2d_result_edge(p.R, p.o, x0, ry0, x1, ry1)
          ELSE linprog2d_result_unbounded)
    ELSE IF Gt(dxf, Zero)
    THEN linprog2d_result_point(p.R, p.o, x0, ry0)
    ELSE linprog2d_result_point(p.R, p.o, x1, ry1)

\* Lines 982-1001 for the lowest points (x0, ry0) and (x1, ry1) of the floor.
EndgameLowest(p, dxf, x0, x1, ry0, ry1) ==
    IF feq_(dxf, Zero)
    THEN (IF EndgameHorizontal(x0, x1)
          THEN linprog2d_result_edge(p.R, p.o, x0, ry0, x1, ry1)
          ELSE linprog2d_result_unbounded)
    ELSE IF Gt(dxf, Zero)
    THEN (IF Le(x0, Neg(HUGE_VAL)) THEN linprog2d_result_unbounded
          ELSE linprog2d_result_point(p.R, p.o, x0, ry0))
    ELSE (IF Ge(x1, HUGE_VAL) THEN linprog2d_result_unbounded
          ELSE linprog2d_result_point(p.R, p.o, x1, ry1))

\* Line 982.
EndgameFloor(p, if0, b) ==
    IF b.infeasible THEN linprog2d_result_infeasible
    ELSE EndgameLowest(p, p.dx[if0], b.x0, b.x1,
                       Add(p.y0[if0], Mul(b.x0, p.dx[if0])),
                       Add(p.y0[if0], Mul(b.x1, p.dx[if0])))

linprog2d_calculate_result(p) ==
    IF p.floor_len = 0 THEN linprog2d_result_unbounded
    ELSE EndgameFloor(p, p.floor[0], EndgameBounds(p))

(***************************************************************************)
(* The inputs of the model.                                                *)
(***************************************************************************)
\* Objective vectors (cx, cy).
Objectives == {<<0, 1>>, <<1, 0>>, <<3, 4>>}

\* Constraints Gx*x + Gy*y >= h as <<Gx, Gy, h>>: floors, ceilings and
\* vertical bounds of several slopes, and the two kinds of zero direction.
PoolInts ==
    {<<0, 1, -1>>, <<-1, 1, 1>>, <<2, 1, 1>>,
     <<0, -2, -2>>, <<1, -1, 1>>, <<-1, -1, -1>>,
     <<1, 0, 1>>, <<-1, 0, -1>>, <<-1, 0, 1>>,
     <<0, 0, 1>>, <<0, 0, -1>>}

Pool == {<<I(g[1]), I(g[2]), I(g[3])>> : g \in PoolInts}

\* Capacities passed to linprog2d_create.
Capacities == {0, 1, MaxN}

\* What a cell of Gx, Gy and h that this call has not written may hold.
Garbage == {<<Zero, Zero, Zero>>, <<Zero, One, Zero>>}

NoResult == linprog2d_result_create("NONE", Zero, Zero, Zero, Zero)

NoArgs == [cx |-> Zero, cy |-> Zero, G |-> <<>>, n |-> 0]

(***************************************************************************)
(* linprog2d_solve, one action per step of its body.                       *)
(***************************************************************************)
\* The workspace is NULL (linprog2d_create failed) or was created with one of
\* the capacities; no call has been made.
Init ==
    /\ pc = "idle"
    /\ prog_ \in {"prog", "NULL"}
    /\ \E capacity \in Capacities :
          prog = linprog2d_init_internal(IF prog_ = "prog" THEN capacity ELSE 0)
    /\ args = NoArgs
    /\ x = Zero
    /\ y = Zero
    /\ optimum_is_left = FALSE
    /\ has_median = FALSE
    /\ res = NoResult
    /\ calls = 0
    /\ iterations = 0
    /\ heap = IF prog_ = "prog" THEN 1 ELSE 0

\* The test with <= for <: a problem that fills the workspace is refused.
RejectedAtCapacity(p_, p, n) == p_ = "NULL" \/ p.capacity <= n

\* "if (!prog || prog->capacity < n)"
Rejected(p_, p, n) == p_ = "NULL" \/ p.capacity < n

\* The call: the locals are initialised, the arguments are checked and the
\* workspace is reset.
SolveEnter ==
    /\ pc = "idle"
    /\ \E c \in Objectives, n \in 0..MaxN :
         \E G \in [0..(n - 1) -> Pool] :
            /\ args' = [cx |-> I(c[1]), cy |-> I(c[2]), G |-> G, n |-> n]
            /\ IF Rejected(prog_, prog, n)
               THEN /\ res' = linprog2d_result_err
                    /\ pc' = "done"
                    /\ prog' = prog
               ELSE /\ res' = res
                    /\ pc' = "condition"
                    /\ prog' = linprog2d_reset(prog, n)
    /\ x' = Zero
    /\ y' = Zero
    /\ optimum_is_left' = FALSE
    /\ has_median' = FALSE
    /\ calls' = calls + 1
    /\ iterations' = 0
    /\ UNCHANGED <<prog_, heap>>

\* Line 1028: the value that linprog2d_condition_problem returns is dropped.
Condition ==
    /\ pc = "condition"
    /\ prog' = linprog2d_condition_problem(prog, args.cx, args.cy, args.G).prog
    /\ pc' = "categorize"
    /\ UNCHANGED <<prog_, args, x, y, optimum_is_left, has_median, res, calls, iterations, heap>>

\* The cells below prog->n that the conditioner has not written.
Unwritten(p) == {i \in 0..(p.n - 1) : p.Gx[i] = Indet}

\* The workspace with the content mem of those cells made explicit.
Held(p, mem) ==
    [p EXCEPT !.Gx = [i \in DOMAIN p.Gx |-> IF i \in DOMAIN mem THEN mem[i][1] ELSE p.Gx[i]],
              !.Gy = [i \in DOMAIN p.Gy |-> IF i \in DOMAIN mem THEN mem[i][2] ELSE p.Gy[i]],
              !.h = [i \in DOMAIN p.h |-> IF i \in DOMAIN mem THEN mem[i][3] ELSE p.h[i]]]

\* Lines 1031-1033 for the outcome c of the categorizer.
CategorizeReturn(c) ==
    /\ prog' = c.prog
    /\ IF c.ok
       THEN pc' = "yoffset" /\ res' = res
       ELSE pc' = "done" /\ res' = linprog2d_result_infeasible

\* The categorizer reads the cells 0 .. prog->n - 1, written or not.
Categorize ==
    /\ pc = "categorize"
    /\ \E mem \in [Unwritten(prog) -> Garbage] :
          CategorizeReturn(linprog2d_categorize_constraints(Held(prog, mem)))
    /\ UNCHANGED <<prog_, args, x, y, optimum_is_left, has_median, calls, iterations, heap>>

\* Line 1038, after line 1036 has produced p.
YOffsetFloor(p) == linprog2d_calculate_yoffset_form(p, p.floor, p.floor_len, 0)

YOffset ==
    /\ pc = "yoffset"
    /\ prog' = YOffsetFloor(linprog2d_calculate_yoffset_form(prog, prog.ceil, prog.ceil_len, 0))
    /\ pc' = "loop"
    /\ UNCHANGED <<prog_, args, x, y, optimum_is_left, has_median, res, calls, iterations, heap>>

\* The condition of the while loop (lines 1043-1045).
LoopCondition(p) ==
    /\ p.floor_len # 0
    /\ (p.floor_len > 1 \/ p.ceil_len > 1)
    /\ (Gt(p.x1, p.x0) \/ feq_(p.x1, p.x0))

\* The list written back by linprog2d_calculate_intersects: idcs is prog->ceil
\* or prog->floor itself.
StoreCeil(c) == [c.prog EXCEPT !.ceil = c.idcs, !.ceil_len = c.idcs_len]

StoreFloor(f) == [f.prog EXCEPT !.floor = f.idcs, !.floor_len = f.idcs_len]

\* Line 1055.
PruneFloor(p, has_med, mx, opt_is_left) ==
    StoreFloor(linprog2d_calculate_intersects(p, p.floor, p.floor_len, FALSE,
                                              has_med, mx, opt_is_left))

\* Line 1053.
PruneCeil(p, has_med, mx, opt_is_left) ==
    StoreCeil(linprog2d_calculate_intersects(p, p.ceil, p.ceil_len, TRUE,
                                             has_med, mx, opt_is_left))

\* Lines 1052-1056.
Prune(p, has_med, mx, opt_is_left) ==
    PruneFloor(PruneCeil([p EXCEPT !.intersect_len = 0], has_med, mx, opt_is_left),
               has_med, mx, opt_is_left)

\* "return linprog2d_calculate_edge(prog, x);"
LoopEdge(e) ==
    /\ prog' = e.prog
    /\ res' = e.res
    /\ pc' = "done"
    /\ UNCHANGED <<optimum_is_left, has_median>>

\* The switch with the bounds exchanged: LOC_LEFT moves x0, LOC_RIGHT moves x1.
LoopSwitchExchanged(p, mx, l) ==
    /\ x' = mx
    /\ y' = l.y
    /\ CASE l.loc = LOC_INFEASIBLE ->
              /\ prog' = p
              /\ res' = linprog2d_result_infeasible
              /\ pc' = "done"
              /\ UNCHANGED <<optimum_is_left, has_median>>
         [] l.loc = LOC_LEFT ->
              /\ prog' = [p EXCEPT !.x0 = fmax_(p.x0, mx)]
              /\ optimum_is_left' = TRUE
              /\ has_median' = TRUE
              /\ pc' = "loop"
              /\ res' = res
         [] l.loc = LOC_RIGHT ->
              /\ prog' = [p EXCEPT !.x1 = fmin_(p.x1, mx)]
              /\ optimum_is_left' = FALSE
              /\ has_median' = TRUE
              /\ pc' = "loop"
              /\ res' = res
         [] l.loc = LOC_HERE ->
              /\ prog' = p
              /\ res' = linprog2d_result_point(p.R, p.o, mx, l.y)
              /\ pc' = "done"
              /\ UNCHANGED <<optimum_is_left, has_median>>
         [] l.loc = LOC_HERE_EDGE -> LoopEdge(linprog2d_calculate_edge(p, mx))

\* The switch of lines 1067-1084 for the median mx and the location l.
LoopSwitch(p, mx, l) ==
    /\ x' = mx
    /\ y' = l.y
    /\ CASE l.loc = LOC_INFEASIBLE ->
              /\ prog' = p
              /\ res' = linprog2d_result_infeasible
              /\ pc' = "done"
              /\ UNCHANGED <<optimum_is_left, has_median>>
         [] l.loc = LOC_LEFT ->
              /\ prog' = [p EXCEPT !.x1 = fmin_(p.x1, mx)]
              /\ optimum_is_left' = TRUE
              /\ has_median' = TRUE
              /\ pc' = "loop"
              /\ res' = res
         [] l.loc = LOC_RIGHT ->
              /\ prog' = [p EXCEPT !.x0 = fmax_(p.x0, mx)]
              /\ optimum_is_left' = FALSE
              /\ has_median' = TRUE
              /\ pc' = "loop"
              /\ res' = res
         [] l.loc = LOC_HERE ->
              /\ prog' = p
              /\ res' = linprog2d_result_point(p.R, p.o, mx, l.y)
              /\ pc' = "done"
              /\ UNCHANGED <<optimum_is_left, has_median>>
         [] l.loc = LOC_HERE_EDGE -> LoopEdge(linprog2d_calculate_edge(p, mx))

\* Line 1067.
LoopLocate(p, mx) == LoopSwitch(p, mx, linprog2d_locate_optimum(p, mx, y))

\* Line 1066: median() permutes prog->x_intersect and returns m.v.
LoopMedian(p, m) == LoopLocate([p EXCEPT !.x_intersect = m.d], m.v)

\* Lines 1060-1084 for the workspace p after the pruning.
LoopBody(p) ==
    IF p.intersect_len = 0
    THEN /\ prog' = p
         /\ pc' = "loop"
         /\ UNCHANGED <<x, y, optimum_is_left, has_median, res>>
    ELSE LoopMedian(p, median(p.x_intersect, 0, p.intersect_len))

\* The model follows a call with n constraints for this many iterations.
MaxIterations(n) == 2 * n

\* One iteration of the while loop.
LoopIteration ==
    /\ pc = "loop"
    /\ LoopCondition(prog)
    /\ iterations < MaxIterations(args.n)
    /\ LoopBody(Prune(prog, has_median, x, optimum_is_left))
    /\ iterations' = iterations + 1
    /\ UNCHANGED <<prog_, args, calls, heap>>

\* The loop is left: line 1088.
CalculateResult ==
    /\ pc = "loop"
    /\ ~LoopCondition(prog)
    /\ res' = linprog2d_calculate_result(prog)
    /\ pc' = "done"
    /\ UNCHANGED <<prog_, prog, args, x, y, optimum_is_left, has_median, calls, iterations, heap>>

Next ==
    \/ SolveEnter
    \/ Condition
    \/ Categorize
    \/ YOffset
    \/ LoopIteration
    \/ CalculateResult

Spec == Init /\ [][Next]_vars


(***************************************************************************)
(* linprog2d_solve as one step: the set of outcomes [prog, res] of a call  *)
(* on the workspace p.  There is more than one outcome only when the call  *)
(* reads cells that it has not written and no earlier call has written.    *)
(***************************************************************************)
RECURSIVE SolveLoop(_, _, _, _, _)

\* The switch of lines 1067-1084 for the median mx and the location l.
SolveSwitch(p, mx, l) ==
    CASE l.loc = LOC_INFEASIBLE -> [prog |-> p, res |-> linprog2d_result_infeasible]
      [] l.loc = LOC_LEFT -> SolveLoop([p EXCEPT !.x1 = fmin_(p.x1, mx)], mx, l.y, TRUE, TRUE)
      [] l.loc = LOC_RIGHT -> SolveLoop([p EXCEPT !.x0 = fmax_(p.x0, mx)], mx, l.y, FALSE, TRUE)
      [] l.loc = LOC_HERE -> [prog |-> p, res |-> linprog2d_result_point(p.R, p.o, mx, l.y)]
      [] l.loc = LOC_HERE_EDGE -> linprog2d_calculate_edge(p, mx)

\* Line 1066: median() permutes prog->x_intersect and returns m.v.
SolveMedian(p, m, ly) ==
    SolveSwitch([p EXCEPT !.x_intersect = m.d], m.v,
                linprog2d_locate_optimum([p EXCEPT !.x_intersect = m.d], m.v, ly))

\* Lines 1060-1084 for the workspace p after the pruning.
SolveBody(p, lx, ly, opt_is_left, has_med) ==
    IF p.intersect_len = 0
    THEN SolveLoop(p, lx, ly, opt_is_left, has_med)
    ELSE SolveMedian(p, median(p.x_intersect, 0, p.intersect_len), ly)

\* The while loop of lines 1043-1085 and line 1088.
SolveLoop(p, lx, ly, opt_is_left, has_med) ==
    IF LoopCondition(p)
    THEN SolveBody(Prune(p, has_med, lx, opt_is_left), lx, ly, opt_is_left, has_med)
    ELSE [prog |-> p, res |-> linprog2d_calculate_result(p)]

\* Lines 1031-1088 for the outcome c of the categorizer.
SolveCategorized(c) ==
    IF c.ok
    THEN SolveLoop(YOffsetFloor(linprog2d_calculate_yoffset_form(c.prog, c.prog.ceil, c.prog.ceil_len, 0)),
                   Zero, Zero, FALSE, FALSE)
    ELSE [prog |-> c.prog, res |-> linprog2d_result_infeasible]

\* Lines 1031-1088 for the conditioned workspace p.
SolveConditioned(p) ==
    {SolveCategorized(linprog2d_categorize_constraints(Held(p, mem))) :
        mem \in [Unwritten(p) -> Garbage]}

linprog2d_solve(p_, p, cx, cy, G, n) ==
    IF Rejected(p_, p, n)
    THEN {[prog |-> p, res |-> linprog2d_result_err]}
    ELSE SolveConditioned(linprog2d_condition_problem(linprog2d_reset(p, n), cx, cy, G).prog)

\* The outcome of the call a on a workspace of the given capacity that no call
\* has used.
SolveFresh(a, capacity) ==
    linprog2d_solve("prog", linprog2d_init_internal(capacity), a.cx, a.cy, a.G, a.n)

(***************************************************************************)
(* Several calls of linprog2d_solve on one workspace, each call one step.  *)
(***************************************************************************)
\* The calls made on one workspace.
MaxCalls == 2

\* Objective vectors of these calls: the zero gradient is one of them.
CallObjectives == {<<0, 0>>, <<0, 1>>}

\* Constraints of these calls: two floors, a ceiling and a zero direction that
\* cannot be satisfied.
CallPool == {<<I(0), I(1), I(-1)>>, <<I(-1), I(1), I(1)>>, <<I(0), I(-2), I(-2)>>,
             <<I(0), I(0), I(1)>>}

\* One call of linprog2d_solve, from its entry to its return.
SolveCall ==
    /\ pc \in {"idle", "done"}
    /\ calls < MaxCalls
    /\ \E c \in CallObjectives, n \in 0..MaxN :
         \E G \in [0..(n - 1) -> CallPool] :
            /\ args' = [cx |-> I(c[1]), cy |-> I(c[2]), G |-> G, n |-> n]
            /\ \E o \in linprog2d_solve(prog_, prog, I(c[1]), I(c[2]), G, n) :
                  prog' = o.prog /\ res' = o.res
    /\ pc' = "done"
    /\ calls' = calls + 1
    /\ UNCHANGED <<prog_, x, y, optimum_is_left, has_median, iterations, heap>>

NextCalls == SolveCall

SpecCalls == Init /\ [][NextCalls]_vars

(***************************************************************************)
(* linprog2d_solve_simple: create, solve, free.                            *)
(***************************************************************************)
\* No workspace exists; prog is the local of linprog2d_solve_simple.
InitSimple ==
    /\ pc = "idle"
    /\ prog_ = "NULL"
    /\ prog = linprog2d_init_internal(0)
    /\ args = NoArgs
    /\ x = Zero
    /\ y = Zero
    /\ optimum_is_left = FALSE
    /\ has_median = FALSE
    /\ res = NoResult
    /\ calls = 0
    /\ iterations = 0
    /\ heap = 0

\* "linprog2d_t *prog = linprog2d_create(n);": malloc returns a block, which
\* linprog2d_init lays out, or NULL, which linprog2d_init_internal hands on.
SimpleCreate ==
    /\ pc = "idle"
    /\ \E c \in Objectives, n \in 0..MaxN :
         \E G \in [0..(n - 1) -> Pool] :
            /\ args' = [cx |-> I(c[1]), cy |-> I(c[2]), G |-> G, n |-> n]
            /\ \/ /\ prog_' = "prog"
                  /\ prog' = linprog2d_init_internal(n)
                  /\ heap' = heap + 1
               \/ /\ prog_' = "NULL"
                  /\ UNCHANGED <<prog, heap>>
    /\ pc' = "created"
    /\ UNCHANGED <<x, y, optimum_is_left, has_median, res, calls, iterations>>

\* "if (prog) { linprog2d_result_t res = linprog2d_solve(prog, ...);"
SimpleSolve ==
    /\ pc = "created"
    /\ prog_ # "NULL"
    /\ \E o \in linprog2d_solve(prog_, prog, args.cx, args.cy, args.G, args.n) :
          prog' = o.prog /\ res' = o.res
    /\ calls' = calls + 1
    /\ pc' = "solved"
    /\ UNCHANGED <<prog_, args, x, y, optimum_is_left, has_median, iterations, heap>>

\* SimpleFree without the call of linprog2d_free.
SimpleLeak ==
    /\ pc = "solved"
    /\ pc' = "done"
    /\ UNCHANGED <<prog_, prog, args, x, y, optimum_is_left, has_median, res, calls,
                   iterations, heap>>

\* "linprog2d_free(prog); return res; }"
SimpleFree ==
    /\ pc = "solved"
    /\ prog_' = "freed"
    /\ heap' = heap - 1
    /\ pc' = "done"
    /\ UNCHANGED <<prog, args, x, y, optimum_is_left, has_median, res, calls, iterations>>

\* prog is NULL: "return linprog2d_result_err();"
SimpleFail ==
    /\ pc = "created"
    /\ prog_ = "NULL"
    /\ res' = linprog2d_result_err
    /\ pc' = "done"
    /\ UNCHANGED <<prog_, prog, args, x, y, optimum_is_left, has_median, calls,
                   iterations, heap>>

NextSimple ==
    \/ SimpleCreate
    \/ SimpleSolve
    \/ SimpleFree
    \/ SimpleFail

SpecSimple == InitSimple /\ [][NextSimple]_vars

(***************************************************************************)
(* kth_smallest, median and partition, called on an array of their own as  *)
(* the unit tests call them.  args holds the arguments d, len and k or     *)
(* piviot; res holds the array as the function left it and what the        *)
(* function returned.                                                      *)
(***************************************************************************)
\* The arrays have up to MaxLen entries.
MaxLen == 7

\* The values of the entries: arrays longer than three hold duplicates.
Values == {I(0), I(1), I(2)}

\* Longer arrays, of up to MaxLong entries (two groups of five from ten entries
\* on), hold two values.
MaxLong == 11

LongValues == {I(0), I(1)}

InitSelect ==
    /\ pc = "idle"
    /\ \E len \in 1..MaxLong :
          \E d \in [0..(len - 1) -> IF len <= MaxLen THEN Values ELSE LongValues] :
             args = [d |-> d, len |-> len, k |-> 0, piviot |-> Zero]
    /\ prog_ = "NULL"
    /\ prog = linprog2d_init_internal(0)
    /\ x = Zero
    /\ y = Zero
    /\ optimum_is_left = FALSE
    /\ has_median = FALSE
    /\ res = NoResult
    /\ calls = 0
    /\ iterations = 0
    /\ heap = 0

\* "kth_smallest(d, len, k)" for some k < len.
CallKthSmallest ==
    /\ pc = "idle"
    /\ \E k \in 0..(args.len - 1) :
          /\ args' = [args EXCEPT !.k = k]
          /\ res' = kth_smallest(args.d, 0, args.len, k)
    /\ pc' = "kth_smallest"
    /\ UNCHANGED <<prog_, prog, x, y, optimum_is_left, has_median, calls, iterations, heap>>

\* "median(d, len)"
CallMedian ==
    /\ pc = "idle"
    /\ res' = median(args.d, 0, args.len)
    /\ pc' = "median"
    /\ UNCHANGED <<prog_, prog, args, x, y, optimum_is_left, has_median, calls,
                   iterations, heap>>

\* "partition(d, len, piviot)" for a piviot that d contains.
CallPartition ==
    /\ pc = "idle"
    /\ \E i \in 0..(args.len - 1) :
          /\ args' = [args EXCEPT !.piviot = args.d[i]]
          /\ res' = partition(args.d, 0, args.len, args.d[i])
    /\ pc' = "partition"
    /\ UNCHANGED <<prog_, prog, x, y, optimum_is_left, has_median, calls, iterations, heap>>

NextSelect ==
    \/ CallKthSmallest
    \/ CallMedian
    \/ CallPartition

SpecSelect == InitSelect /\ [][NextSelect]_vars

(***************************************************************************)
(* The layout of the workspace in the buffer passed to linprog2d_init.     *)
(* Addresses and sizes are in bytes; unsigned long has 64 bits, which no   *)
(* sum below reaches.                                                      *)
(***************************************************************************)
\* sizeof(double)
SD == 8

\* sizeof(unsigned int)
SU == 4

\* sizeof(linprog2d_data_t): nine pointers, x0, x1, four counters, R, o, n.
SizeofData == 160

\* The capacities of the layout.
MaxCapacity == 9

\* The buffers start up to MaxSkew bytes behind a cache line boundary.
MaxSkew == 64

\* mem_align64 without the rounding.
MemNoAlign(p, offs) == p + offs

\* "((unsigned long int)p + offs + 63UL) & (~63UL)"
mem_align64(p, offs) == ((p + offs + 63) \div 64) * 64

\* The second argument of the calls of mem_align64 that place Gx, Gy, h, dx,
\* y0, x_intersect, ceil, floor and tmp (lines 463-472).
LayoutOffsets(capacity) ==
    <<0, SD * capacity, SD * capacity, SD * capacity, SD * capacity, SD * capacity,
      (SD * capacity) \div 2, SU * capacity, SU * capacity>>

\* The k-th of these pointers: each call starts from the pointer before.
RECURSIVE LayoutPointer(_, _, _)
LayoutPointer(k, capacity, mem) ==
    mem_align64(IF k = 1 THEN mem ELSE LayoutPointer(k - 1, capacity, mem),
                LayoutOffsets(capacity)[k])

\* linprog2d_init: the header is at mem, the arrays follow it.
linprog2d_init(capacity, mem) ==
    [k \in 1..9 |-> LayoutPointer(k, capacity, mem + SizeofData)]

linprog2d_mem_size(capacity) ==
    (SizeofData + 64)
        + ((SD * 5 + SD \div 2) * capacity + 64 * 6)
        + (SU * 3 * capacity + 64 * 3)

\* args holds the capacity and the address of the buffer.
InitLayout ==
    /\ pc = "idle"
    /\ \E capacity \in 0..MaxCapacity, skew \in 0..MaxSkew :
          args = [capacity |-> capacity, mem |-> 4096 + skew]
    /\ prog_ = "NULL"
    /\ prog = linprog2d_init_internal(0)
    /\ x = Zero
    /\ y = Zero
    /\ optimum_is_left = FALSE
    /\ has_median = FALSE
    /\ res = NoResult
    /\ calls = 0
    /\ iterations = 0
    /\ heap = 0

\* "linprog2d_init(capacity, mem)" on a buffer of linprog2d_mem_size(capacity)
\* bytes: res holds the nine pointers and the size of the buffer.
InitBuffer ==
    /\ pc = "idle"
    /\ res' = [pointer |-> linprog2d_init(args.capacity, args.mem),
               size |-> linprog2d_mem_size(args.capacity)]
    /\ pc' = "init"
    /\ UNCHANGED <<prog_, prog, args, x, y, optimum_is_left, has_median, calls,
                   iterations, heap>>

NextLayout == InitBuffer

SpecLayout == InitLayout /\ [][NextLayout]_vars

(***************************************************************************)
(* mat22_rot on its own.  args holds the vector (x, y), res the matrix.    *)
(***************************************************************************)
\* The coordinates of the vectors are integers of at most this size.
MaxCoord == 12

\* The vectors other than zero whose length is an integer (so that the
\* square root is exact).
RotVectors ==
    {v \in (-MaxCoord..MaxCoord) \X (-MaxCoord..MaxCoord) :
        /\ v # <<0, 0>>
        /\ \E r \in 1..(2 * MaxCoord) : r * r = v[1] * v[1] + v[2] * v[2]}

InitRot ==
    /\ pc = "idle"
    /\ \E v \in RotVectors : args = [x |-> I(v[1]), y |-> I(v[2])]
    /\ prog_ = "NULL"
    /\ prog = linprog2d_init_internal(0)
    /\ x = Zero
    /\ y = Zero
    /\ optimum_is_left = FALSE
    /\ has_median = FALSE
    /\ res = NoResult
    /\ calls = 0
    /\ iterations = 0
    /\ heap = 0

\* "mat22_rot(x, y)"
CallRot ==
    /\ pc = "idle"
    /\ res' = mat22_rot(args.x, args.y)
    /\ pc' = "rot"
    /\ UNCHANGED <<prog_, prog, args, x, y, optimum_is_left, has_median, calls,
                   iterations, heap>>

NextRot == CallRot

SpecRot == InitRot /\ [][NextRot]_vars

(***************************************************************************)
(* linprog2d_calculate_intersects on its own, set up as its unit test does:*)
(* the rows are stored, categorized and brought into y-offset form, then   *)
(* the function is called for the ceil list and for the floor list.  args  *)
(* holds the rows, the median passed in, the list and the number of        *)
(* intersections as they were before the last call, and the length that    *)
(* the ceil list had.                                                      *)
(***************************************************************************)
\* The floor list has up to MaxFloors entries.
MaxFloors == 4

\* Vertical bounds: x >= -1, x >= 0, x <= -1.
PairVerticals == {<<One, Zero, I(-1)>>, <<One, Zero, Zero>>, <<I(-1), Zero, One>>}

\* Ceilings: none, a pair that crosses at x = 0, a parallel pair.
PairCeils ==
    {<<>>,
     <<<<I(-1), I(-1), I(-3)>>, <<One, I(-1), I(-3)>>>>,
     <<<<Zero, I(-1), I(-3)>>, <<Zero, I(-1), I(-4)>>>>}

\* Floors y >= 0, y >= x, y >= -x, y >= x + 1: they cross at x = 0, -1/2, -1
\* or are parallel.
PairFloors ==
    {<<Zero, One, Zero>>, <<I(-1), One, Zero>>, <<One, One, Zero>>, <<I(-1), One, One>>}

\* The median of the iteration before: none, or x = 0 with the optimum to
\* its left or to its right.
PairMedians ==
    {[has_median |-> FALSE, optimum_is_left |-> FALSE],
     [has_median |-> TRUE, optimum_is_left |-> FALSE],
     [has_median |-> TRUE, optimum_is_left |-> TRUE]}

\* The workspace for the rows (a sequence), reset for their number.
WithRows(p, rows) ==
    [p EXCEPT !.Gx = [i \in DOMAIN p.Gx |-> rows[i + 1][1]],
              !.Gy = [i \in DOMAIN p.Gy |-> rows[i + 1][2]],
              !.h = [i \in DOMAIN p.h |-> rows[i + 1][3]]]

\* The set-up of the unit test: linprog2d_categorize_constraints and
\* linprog2d_calculate_yoffset_form for both lists.
PairSetup(rows) ==
    YOffsetFloor(
      linprog2d_calculate_yoffset_form(
        linprog2d_categorize_constraints(
          WithRows(linprog2d_reset(linprog2d_init_internal(Len(rows)), Len(rows)), rows)).prog,
        linprog2d_categorize_constraints(
          WithRows(linprog2d_reset(linprog2d_init_internal(Len(rows)), Len(rows)), rows)).prog.ceil,
        linprog2d_categorize_constraints(
          WithRows(linprog2d_reset(linprog2d_init_internal(Len(rows)), Len(rows)), rows)).prog.ceil_len,
        0))

InitPairs ==
    /\ pc = "idle"
    /\ \E v \in PairVerticals, c \in PairCeils, m \in 0..MaxFloors, med \in PairMedians :
          \E f \in [1..m -> PairFloors] :
             /\ args = [rows |-> <<v>> \o c \o f,
                        has_median |-> med.has_median,
                        optimum_is_left |-> med.optimum_is_left,
                        L |-> <<>>, m |-> 0, before |-> 0, ceil_m |-> 0]
             /\ prog = PairSetup(<<v>> \o c \o f)
             /\ has_median = med.has_median
             /\ optimum_is_left = med.optimum_is_left
    /\ prog_ = "prog"
    /\ x = Zero
    /\ y = Zero
    /\ res = NoResult
    /\ calls = 0
    /\ iterations = 0
    /\ heap = 0

\* Lines 1052-1053: "prog->intersect_len = 0U;" and the call for the ceil list.
CallIntersectsCeil ==
    /\ pc = "idle"
    /\ args' = [args EXCEPT !.L = prog.ceil, !.m = prog.ceil_len, !.before = 0,
                            !.ceil_m = prog.ceil_len]
    /\ prog' = PruneCeil([prog EXCEPT !.intersect_len = 0], has_median, x, optimum_is_left)
    /\ pc' = "ceil"
    /\ UNCHANGED <<prog_, x, y, optimum_is_left, has_median, res, calls, iterations, heap>>

\* Line 1055: the call for the floor list.
CallIntersectsFloor ==
    /\ pc = "ceil"
    /\ args' = [args EXCEPT !.L = prog.floor, !.m = prog.floor_len,
                            !.before = prog.intersect_len]
    /\ prog' = PruneFloor(prog, has_median, x, optimum_is_left)
    /\ pc' = "floor"
    /\ UNCHANGED <<prog_, x, y, optimum_is_left, has_median, res, calls, iterations, heap>>

NextPairs ==
    \/ CallIntersectsCeil
    \/ CallIntersectsFloor

SpecPairs == InitPairs /\ [][NextPairs]_vars
(***************************************************************************)
(* The linear program of a call, in exact integer arithmetic.  These       *)
(* definitions say what the arguments mean; they do not follow the solver. *)
(* A point is kept in homogeneous coordinates <<X, Y, W>> with W > 0 and   *)
(* stands for (X/W, Y/W).                                                  *)
(***************************************************************************)
\* The call is over and was not refused for its workspace or its size.
Solved == pc = "done" /\ prog_ # "NULL" /\ args.n <= prog.capacity

\* The constraint g = <<Gx, Gy, h>> multiplied by its denominators: the same
\* half-plane with integer coefficients.
Coef(g) ==
    <<g[1][1] * g[2][2] * g[3][2], g[2][1] * g[1][2] * g[3][2], g[3][1] * g[1][2] * g[2][2]>>

\* The constraints of the call a with integer coefficients.
Rows(a) == [i \in DOMAIN a.G |-> Coef(a.G[i])]

\* The objective of the call a, scaled to integers.
Cost(a) == <<a.cx[1] * a.cy[2], a.cy[1] * a.cx[2]>>

\* The point (px, py) of two finite doubles.
HomOf(px, py) == <<px[1] * py[2], py[1] * px[2], px[2] * py[2]>>

\* <<X, Y, W>> with the sign of W made positive.
Oriented(X, Y, W) == IF W < 0 THEN <<-X, -Y, -W>> ELSE <<X, Y, W>>

\* Gx*x + Gy*y >= h at the point q for the row r.
SatisfiesRow(r, q) == r[1] * q[1] + r[2] * q[2] >= r[3] * q[3]

SatisfiesAll(G, q) == \A i \in DOMAIN G : SatisfiesRow(G[i], q)

Det(r, s) == r[1] * s[2] - s[1] * r[2]

\* The point where the boundary lines of r and s cross (Cramer's rule).
CrossPoint(r, s) ==
    Oriented(r[3] * s[2] - s[3] * r[2], r[1] * s[3] - s[1] * r[3], Det(r, s))

\* The point of the boundary line of r that is nearest to the origin.
FootPoint(r) == <<r[1] * r[3], r[2] * r[3], r[1] * r[1] + r[2] * r[2]>>

\* A non-empty feasible set contains one of these points: a vertex if it has
\* one, else a point of a boundary line, else (no boundary at all) the origin.
Anchors(G) ==
    {CrossPoint(G[ij[1]], G[ij[2]]) :
        ij \in {kl \in (DOMAIN G) \X (DOMAIN G) : kl[1] < kl[2] /\ Det(G[kl[1]], G[kl[2]]) # 0}}
    \cup {FootPoint(G[i]) : i \in {k \in DOMAIN G : G[k][1] # 0 \/ G[k][2] # 0}}
    \cup {<<0, 0, 1>>}

\* The feasible anchors of the rows G.
FeasibleAmong(G) == {q \in Anchors(G) : SatisfiesAll(G, q)}

FeasibleAnchors(a) == FeasibleAmong(Rows(a))

\* Some point satisfies all constraints of the call a.
Feasible(a) == FeasibleAnchors(a) # {}

\* The doubles (px, py) are a point that satisfies all constraints of a.
FeasiblePoint(a, px, py) == IsFin(px) /\ IsFin(py) /\ SatisfiesAll(Rows(a), HomOf(px, py))

\* d is a direction of recession of the feasible set.
Recedes(G, d) == \A i \in DOMAIN G : G[i][1] * d[1] + G[i][2] * d[2] >= 0

\* If the objective decreases along some direction of recession, it does so
\* along -c or along a boundary line.
Directions(G, c) ==
    {<<-c[1], -c[2]>>}
    \cup {<<-G[i][2], G[i][1]>> : i \in DOMAIN G}
    \cup {<<G[i][2], -G[i][1]>> : i \in DOMAIN G}

Descends(G, c) ==
    \E d \in Directions(G, c) : Recedes(G, d) /\ c[1] * d[1] + c[2] * d[2] < 0

\* The call a is feasible and its objective has no lower bound.
UnboundedBelow(a) == Feasible(a) /\ Descends(Rows(a), Cost(a))

\* The objective has a minimum on the feasible set.
HasOptimum(a) == Feasible(a) /\ ~Descends(Rows(a), Cost(a))

\* The objective at p is at most the objective at q.
NotAbove(c, p, q) == (c[1] * p[1] + c[2] * p[2]) * q[3] <= (c[1] * q[1] + c[2] * q[2]) * p[3]

\* No point of F has a smaller objective than p.
MinimalAmong(F, c, p) == \A q \in F : NotAbove(c, p, q)

\* No feasible point has a smaller objective than the doubles (px, py), given
\* that the objective has a minimum: the minimum is attained at an anchor.
Minimal(a, px, py) ==
    IsFin(px) /\ IsFin(py) /\ MinimalAmong(FeasibleAnchors(a), Cost(a), HomOf(px, py))

OptimalAmong(F, c) == {q \in F : MinimalAmong(F, c, q)}

\* The optimal anchors, as points <<x, y>> of doubles.
OptimalAnchors(a) == {<<Q(q[1], q[3]), Q(q[2], q[3])>> : q \in OptimalAmong(FeasibleAnchors(a), Cost(a))}

\* The set of optimal points contains a ray: it recedes along a direction
\* perpendicular to the objective.
OptimalRay(a) ==
    /\ HasOptimum(a)
    /\ \/ Recedes(Rows(a), <<-Cost(a)[2], Cost(a)[1]>>)
       \/ Recedes(Rows(a), <<Cost(a)[2], -Cost(a)[1]>>)

\* The optimal set is one point.
SingleOptimum(a) == HasOptimum(a) /\ ~OptimalRay(a) /\ Cardinality(OptimalAnchors(a)) = 1

\* q lies on the segment from (ax, ay) to (bx, by).
OnSegment(q, ax, ay, bx, by) ==
    /\ Sub(Mul(Sub(q[1], ax), Sub(by, ay)), Mul(Sub(q[2], ay), Sub(bx, ax))) = Zero
    /\ Ge(Add(Mul(Sub(q[1], ax), Sub(bx, ax)), Mul(Sub(q[2], ay), Sub(by, ay))), Zero)
    /\ Ge(Add(Mul(Sub(q[1], bx), Sub(ax, bx)), Mul(Sub(q[2], by), Sub(ay, by))), Zero)

\* Some constraint has a zero direction and a positive right-hand side.
ContradictoryConstraint(a) ==
    \E i \in DOMAIN a.G : a.G[i][1] = Zero /\ a.G[i][2] = Zero /\ Gt(a.G[i][3], Zero)

(***************************************************************************)
(* The contract of linprog2d_solve.                                        *)
(***************************************************************************)
\* All four coordinates of the result are finite numbers.
FiniteResult == IsFin(res.x1) /\ IsFin(res.y1) /\ IsFin(res.x2) /\ IsFin(res.y2)

\* C1: a call with a non-null workspace, n <= capacity and a non-zero
\* objective whose constraints no point satisfies returns INFEASIBLE.  Stated
\* for the constraint sets without a constraint 0 >= h, h > 0 (those are the
\* case of C5), so that a violation is one of the solver's search or endgame.
C1_InfeasibleIsReported ==
    Solved /\ ~ContradictoryConstraint(args) /\ ~Feasible(args)
        => res.status = LP2D_INFEASIBLE

\* C2: on a feasible problem a result POINT is a point that satisfies every
\* constraint of the call.
C2_PointIsFeasible ==
    Solved /\ res.status = LP2D_POINT /\ Feasible(args)
        => FeasiblePoint(args, res.x1, res.y1)

\* The pruning loop has run (a median was located) on a feasible problem of
\* at least three constraints and the call returned a feasible POINT.
C2_Witness ==
    /\ Solved
    /\ res.status = LP2D_POINT
    /\ has_median
    /\ args.n >= 3
    /\ Feasible(args)
    /\ FeasiblePoint(args, res.x1, res.y1)

\* C3: on a feasible problem a result POINT minimises the objective over the
\* feasible set: the objective has a minimum and no feasible point is lower.
C3_PointIsMinimal ==
    Solved /\ res.status = LP2D_POINT /\ Feasible(args)
        => HasOptimum(args) /\ Minimal(args, res.x1, res.y1)

\* A POINT was returned after pruning, and the feasible set has a vertex with
\* a larger objective than the point returned.
C3_Witness ==
    /\ Solved
    /\ res.status = LP2D_POINT
    /\ has_median
    /\ Minimal(args, res.x1, res.y1)
    /\ \E q \in FeasibleAnchors(args) : ~NotAbove(Cost(args), q, HomOf(res.x1, res.y1))

\* C4: the two endpoints of a result EDGE satisfy every constraint and both
\* attain the minimum of the objective over the feasible set.
C4_EdgeEndsAreOptimal ==
    Solved /\ res.status = LP2D_EDGE
        => /\ FeasiblePoint(args, res.x1, res.y1)
           /\ FeasiblePoint(args, res.x2, res.y2)
           /\ HasOptimum(args)
           /\ Minimal(args, res.x1, res.y1)
           /\ Minimal(args, res.x2, res.y2)

\* C5: a call with a constraint of zero direction and h > 0 returns
\* INFEASIBLE, whatever the other constraints and the workspace hold.  (A
\* rotation by a non-zero objective maps exactly the zero direction to zero.)
C5_ContradictionIsInfeasible ==
    Solved /\ ContradictoryConstraint(args) => res.status = LP2D_INFEASIBLE

\* C6: a call with a null workspace or with n > capacity returns ERROR and
\* leaves the workspace as it was (no constraint is stored); a call with
\* n = capacity does not return ERROR.
C6_ErrorIffRejected ==
    pc = "done"
        => /\ (prog_ = "NULL" \/ args.n > prog.capacity)
                => /\ res = linprog2d_result_err
                   /\ prog.n = 0
                   /\ \A i \in DOMAIN prog.Gx : prog.Gx[i] = Indet
           /\ (prog_ # "NULL" /\ args.n = prog.capacity)
                => res.status # LP2D_ERROR

\* A workspace with room for at least one constraint has refused a larger
\* problem.
C6_Witness ==
    /\ pc = "done"
    /\ prog_ # "NULL"
    /\ prog.capacity >= 1
    /\ args.n > prog.capacity
    /\ res.status = LP2D_ERROR

\* C7: a feasible problem whose objective has no lower bound returns
\* UNBOUNDED.
C7_UnboundedIsReported ==
    Solved /\ UnboundedBelow(args) => res.status = LP2D_UNBOUNDED

\* UNBOUNDED was returned for an unbounded problem that has floor constraints.
C7_Witness ==
    /\ Solved
    /\ UnboundedBelow(args)
    /\ prog.floor_len > 0
    /\ res.status = LP2D_UNBOUNDED

\* C8: on a feasible problem whose optimal set contains a ray the call
\* returns UNBOUNDED, and no result EDGE has an infinite or NaN coordinate.
C8_RayIsUnbounded ==
    Solved /\ Feasible(args)
        => /\ OptimalRay(args) => res.status = LP2D_UNBOUNDED
           /\ res.status = LP2D_EDGE => FiniteResult

\* C9: on a feasible problem whose optimal set is one point the call returns
\* POINT, and the endpoints of a result EDGE are two different points.
C9_EdgeHasTwoEnds ==
    Solved /\ Feasible(args)
        => /\ SingleOptimum(args) => res.status = LP2D_POINT
           /\ res.status = LP2D_EDGE => <<res.x1, res.y1>> # <<res.x2, res.y2>>

\* C10: on a feasible problem the endpoints of a result EDGE are the extreme
\* points of the optimal set: the optimal set contains no ray and each of its
\* vertices lies on the segment between the endpoints.
C10_EdgeSpansOptimalSet ==
    Solved /\ res.status = LP2D_EDGE /\ Feasible(args)
        => /\ ~OptimalRay(args)
           /\ \A q \in OptimalAnchors(args) :
                 OnSegment(q, res.x1, res.y1, res.x2, res.y2)


\* The call as one step and the call as a sequence of steps agree.
SolveAgrees ==
    pc = "done" /\ prog_ # "NULL"
        => [prog |-> prog, res |-> res] \in SolveFresh(args, prog.capacity)

\* C11: a call with the zero gradient (cx = 0 and cy = 0) on a workspace that
\* holds the problem returns ERROR.
C11_ZeroGradientIsError ==
    pc = "done" /\ prog_ # "NULL" /\ args.n <= prog.capacity
                /\ args.cx = Zero /\ args.cy = Zero
        => res.status = LP2D_ERROR

\* C12: the result of a call depends only on its arguments: on a workspace
\* that earlier calls have used it is the result of the same call on a
\* workspace that no call has used.
C12_ResultDependsOnArguments ==
    pc = "done" /\ prog_ # "NULL"
        => \A o \in SolveFresh(args, prog.capacity) : o.res = res

\* C13: a call that the workspace can hold returns: the loop is left through
\* its condition or through a verdict before the iterations that the model
\* follows are used up.
C13_SolveTerminates ==
    pc = "loop" /\ LoopCondition(prog) => iterations < MaxIterations(args.n)

\* A call has returned after at least two iterations.
C13_Witness == pc = "done" /\ iterations >= 2

\* The reorderings of n constraints.
Reorderings(n) ==
    {f \in [0..(n - 1) -> 0..(n - 1)] : \A i, j \in 0..(n - 1) : f[i] = f[j] => i = j}

\* The call a with its constraints in the order f.
Reordered(a, f) == [a EXCEPT !.G = [i \in 0..(a.n - 1) |-> a.G[f[i]]]]

\* Two doubles are the same value or near-equal.
SameDouble(a, b) == a = b \/ feq_(a, b)

\* Two results are the same: the same status and the same point, or the same
\* edge with its endpoints in either order.
SameResult(r, s) ==
    /\ r.status = s.status
    /\ \/ /\ SameDouble(r.x1, s.x1) /\ SameDouble(r.y1, s.y1)
          /\ SameDouble(r.x2, s.x2) /\ SameDouble(r.y2, s.y2)
       \/ /\ r.status = LP2D_EDGE
          /\ SameDouble(r.x1, s.x2) /\ SameDouble(r.y1, s.y2)
          /\ SameDouble(r.x2, s.x1) /\ SameDouble(r.y2, s.y1)

\* C14: the result does not depend on the order of the constraints: for every
\* call and every reordering of its triples (Gx[i], Gy[i], h[i]), the call
\* with the reordered triples on the same workspace can return the same
\* status and the same point or edge.
C14_OrderDoesNotMatter ==
    [][calls' # calls =>
         \A f \in Reorderings(args'.n) :
            \E o \in linprog2d_solve(prog_, prog, args'.cx, args'.cy,
                                     Reordered(args', f).G, args'.n) :
               SameResult(res', o.res)]_vars

\* C15: a result with status ERROR, INFEASIBLE or UNBOUNDED has
\* x1 = y1 = x2 = y2 = 0, and a POINT result has x2 = y2 = 0.
C15_UnusedCoordinatesAreZero ==
    pc = "done"
        => /\ res.status \in {LP2D_ERROR, LP2D_INFEASIBLE, LP2D_UNBOUNDED}
                => res.x1 = Zero /\ res.y1 = Zero /\ res.x2 = Zero /\ res.y2 = Zero
           /\ res.status = LP2D_POINT => res.x2 = Zero /\ res.y2 = Zero

\* A call has returned a point away from both axes.
C15_Witness ==
    pc = "done" /\ res.status = LP2D_POINT /\ res.x1 # Zero /\ res.y1 # Zero

\* C16: linprog2d_solve_simple returns what linprog2d_solve returns on a
\* workspace of capacity n that no call has used, has released that workspace
\* exactly once when it returns, and returns ERROR without a call of
\* linprog2d_solve when the workspace could not be created.
C16_SimpleIsCreateSolveFree ==
    pc = "done"
        => /\ heap = 0
           /\ prog_ \in {"freed", "NULL"}
           /\ prog_ = "freed"
                => /\ calls = 1
                   /\ \E o \in SolveFresh(args, args.n) : o.res = res
           /\ prog_ = "NULL" => calls = 0 /\ res = linprog2d_result_err

\* linprog2d_solve_simple has returned a point for MaxN constraints.
C16_Witness ==
    pc = "done" /\ prog_ = "freed" /\ args.n = MaxN /\ res.status = LP2D_POINT

\* The number of the first len entries of d below v, and at most v.
Below(d, len, v) == Cardinality({i \in 0..(len - 1) : Lt(d[i], v)})

AtMost(d, len, v) == Cardinality({i \in 0..(len - 1) : Le(d[i], v)})

\* v is the entry at index k of the first len entries of d sorted ascending.
IsKth(d, len, k, v) ==
    /\ \E i \in 0..(len - 1) : d[i] = v
    /\ Below(d, len, v) <= k
    /\ k < AtMost(d, len, v)

\* e holds the entries of d in some order.
IsPermuted(d, e, len) ==
    /\ DOMAIN e = DOMAIN d
    /\ \A i \in 0..(len - 1) :
          Cardinality({j \in 0..(len - 1) : e[j] = d[i]})
              = Cardinality({j \in 0..(len - 1) : d[j] = d[i]})

\* C17: kth_smallest(d, len, k) returns the entry that is at index k when d is
\* sorted ascending, median(d, len) returns the entry of rank len / 2 (rounded
\* down: the upper median for even len), which depends on the entries of d
\* but not on their order, and both only permute d.
C17_KthSmallestIsRankK ==
    /\ pc = "kth_smallest"
          => IsKth(args.d, args.len, args.k, res.v) /\ IsPermuted(args.d, res.d, args.len)
    /\ pc = "median"
          => /\ IsKth(args.d, args.len, args.len \div 2, res.v)
             /\ IsPermuted(args.d, res.d, args.len)

\* kth_smallest has returned from an array of MaxLen entries that it has
\* partitioned and reordered.
C17_Witness ==
    /\ pc = "kth_smallest"
    /\ args.len = MaxLen
    /\ args.k = MaxLen - 1
    /\ res.d # args.d
    /\ res.v = I(1)

\* The copies of the piviot among the first len entries of d.
Copies(d, len, piviot) == Cardinality({i \in 0..(len - 1) : d[i] = piviot})

\* C18 as stated: partition returns r with d[i] < pivot for all i < r,
\* d[r] = pivot and d[i] > pivot for all i > r.
C18_PartitionStrict ==
    pc = "partition"
        => /\ \A i \in 0..(res.l - 1) : Lt(res.d[i], args.piviot)
           /\ res.d[res.l] = args.piviot
           /\ \A i \in (res.l + 1)..(args.len - 1) : Gt(res.d[i], args.piviot)

\* C18, amended: partition returns the number r of entries below the pivot;
\* the entries below the pivot are at the indices below r, the copies of the
\* pivot follow from index r on, the entries above the pivot come last, and d
\* is only permuted.
C18_PartitionThreeWay ==
    pc = "partition"
        => /\ res.l = Below(args.d, args.len, args.piviot)
           /\ \A i \in 0..(res.l - 1) : Lt(res.d[i], args.piviot)
           /\ \A i \in res.l..(res.l + Copies(args.d, args.len, args.piviot) - 1) :
                 res.d[i] = args.piviot
           /\ \A i \in (res.l + Copies(args.d, args.len, args.piviot))..(args.len - 1) :
                 Gt(res.d[i], args.piviot)
           /\ IsPermuted(args.d, res.d, args.len)

\* partition has returned from an array with several copies of the pivot,
\* entries below it and entries above it.
C18_Witness ==
    /\ pc = "partition"
    /\ Copies(args.d, args.len, args.piviot) > 1
    /\ res.l > 0
    /\ res.l + Copies(args.d, args.len, args.piviot) < args.len
    /\ res.d # args.d

\* The bytes that the arrays Gx, Gy, h, dx, y0, x_intersect, ceil, floor and
\* tmp must hold: capacity doubles, capacity / 2 (rounded down) doubles for
\* x_intersect, capacity unsigned ints.
ArrayBytes(capacity) ==
    <<SD * capacity, SD * capacity, SD * capacity, SD * capacity, SD * capacity,
      SD * (capacity \div 2), SU * capacity, SU * capacity, SU * capacity>>

\* C19: linprog2d_init places each of the nine arrays at a multiple of 64
\* bytes, behind the header, with room for its elements before the next array
\* starts, and the last array ends within linprog2d_mem_size(capacity) bytes
\* of the start of the buffer.
C19_ArraysAlignAndFit ==
    pc = "init"
        => /\ \A k \in 1..9 : res.pointer[k] % 64 = 0
           /\ res.pointer[1] >= args.mem + SizeofData
           /\ \A k \in 1..8 :
                 res.pointer[k] + ArrayBytes(args.capacity)[k] <= res.pointer[k + 1]
           /\ res.pointer[9] + ArrayBytes(args.capacity)[9] <= args.mem + res.size

\* A buffer for an odd capacity that does not start at a cache line boundary
\* has been laid out.
C19_Witness ==
    pc = "init" /\ args.capacity % 2 = 1 /\ args.capacity > 2 /\ args.mem % 64 = 1

\* Points of the caller's frame.
Grid == {<<I(px), I(py)>> : px \in -2..2, py \in -2..2}

\* The image R * p - o of the point p in the conditioned frame.
Image(R, o, p) ==
    vec2_create(Sub(Add(Mul(R.a11, p[1]), Mul(R.a12, p[2])), o.x),
                Sub(Add(Mul(R.a21, p[1]), Mul(R.a22, p[2])), o.y))

\* The constraints of the call a that the conditioner copies, in their order:
\* those with a direction other than zero.
RECURSIVE CopiedFrom(_, _)
CopiedFrom(a, i) ==
    IF i >= a.n THEN <<>>
    ELSE IF a.G[i][1] = Zero /\ a.G[i][2] = Zero THEN CopiedFrom(a, i + 1)
    ELSE <<a.G[i]>> \o CopiedFrom(a, i + 1)

\* The point q of the conditioned frame satisfies row j of the workspace p.
SatisfiesConditioned(p, j, q) ==
    Ge(Add(Mul(p.Gx[j], q.x), Mul(p.Gy[j], q.y)), p.h[j])

\* The point p of the caller's frame satisfies the constraint g.
SatisfiesOriginal(g, p) == Ge(Add(Mul(g[1], p[1]), Mul(g[2], p[2])), g[3])

\* The transform (R, o) of the workspace and linprog2d_result_transform_back
\* are inverse to each other (the image R * p - o of a point p is mapped back
\* to p), the workspace holds one row for each constraint with a direction,
\* and the image of p satisfies a row exactly when p satisfies the constraint
\* the row was made from.
TransformIsInverse ==
    /\ \A p \in Grid :
          linprog2d_result_transform_back(prog.R, prog.o, Image(prog.R, prog.o, p).x,
                                          Image(prog.R, prog.o, p).y)
              = vec2_create(p[1], p[2])
    /\ prog.n = Len(CopiedFrom(args, 0))
    /\ \A j \in 0..(prog.n - 1) : \A p \in Grid :
          SatisfiesConditioned(prog, j, Image(prog.R, prog.o, p))
              <=> SatisfiesOriginal(CopiedFrom(args, 0)[j + 1], p)

\* C20: when a call returns coordinates, the conditioning transform and the
\* back-transform of the result are inverse to each other, so that the
\* conditioned rows describe the caller's constraints and the returned
\* coordinates are in the caller's frame.
C20_TransformBackInvertsConditioning ==
    Solved /\ res.status \in {LP2D_POINT, LP2D_EDGE} => TransformIsInverse

\* After a conditioner that ran to its end (no constraint 0 >= h with h > 0
\* made it abort) the transform is inverse, whatever the call returns.
CompletedConditioningIsInverse ==
    /\ pc \in {"categorize", "done"}
    /\ prog_ # "NULL"
    /\ args.n <= prog.capacity
    /\ ~ContradictoryConstraint(args)
    => TransformIsInverse

(***************************************************************************)
(* The conditioner, the categorizer and the pruning loop step by step.     *)
(***************************************************************************)
\* The sum of u[i] * v[i] over the first n cells.
RECURSIVE DotRows(_, _, _)
DotRows(u, v, n) ==
    IF n = 0 THEN Zero ELSE Add(DotRows(u, v, n - 1), Mul(u[n - 1], v[n - 1]))

\* det(G.T G) of the rows that the workspace p holds.
StoredDet(p) ==
    Sub(Mul(DotRows(p.Gx, p.Gx, p.n), DotRows(p.Gy, p.Gy, p.n)),
        Mul(DotRows(p.Gx, p.Gy, p.n), DotRows(p.Gx, p.Gy, p.n)))

\* The conditioner of this call has run to its end.
Conditioned ==
    /\ pc = "categorize"
    /\ ~ContradictoryConstraint(args)

\* C21: after the conditioner, when det(G.T G) of the normalised rows is not
\* zero, the offset o satisfies the normal equations (G.T G) o = G.T h in
\* both components (the stored h is h - G o, so G.T times the stored h is
\* zero); when the determinant is zero, o = (0, 0).
C21_OffsetIsLeastSquares ==
    Conditioned
        => IF StoredDet(prog) # Zero
           THEN /\ DotRows(prog.Gx, prog.h, prog.n) = Zero
                /\ DotRows(prog.Gy, prog.h, prog.n) = Zero
           ELSE prog.o = vec2_create(Zero, Zero)

\* What the code keeps of C21: the normal equations hold when the diagonal
\* entries of G.T G are equal, and o = (0, 0) when the determinant is zero.
OffsetWithEqualDiagonal ==
    Conditioned
        => IF StoredDet(prog) # Zero
           THEN DotRows(prog.Gx, prog.Gx, prog.n) = DotRows(prog.Gy, prog.Gy, prog.n)
                   => /\ DotRows(prog.Gx, prog.h, prog.n) = Zero
                      /\ DotRows(prog.Gy, prog.h, prog.n) = Zero
           ELSE prog.o = vec2_create(Zero, Zero)

\* The rows that the workspace p holds, as the arguments Gx, Gy, h of a call.
StoredRows(p) == [i \in 0..(p.n - 1) |-> <<p.Gx[i], p.Gy[i], p.h[i]>>]

\* The conditioner run on the workspace p with the objective (0, 1) and the
\* rows of p itself.
SecondPass(p) == linprog2d_condition_problem(p, Zero, One, StoredRows(p))

\* The pass s left the rows of p as they were and computed the offset (0, 0).
SamePass(p, s) ==
    /\ s.ok
    /\ s.prog.n = p.n
    /\ \A i \in 0..(p.n - 1) :
          /\ s.prog.Gx[i] = p.Gx[i]
          /\ s.prog.Gy[i] = p.Gy[i]
          /\ s.prog.h[i] = p.h[i]
    /\ s.prog.o = vec2_create(Zero, Zero)

\* C22: a second run of the conditioner, with the objective (0, 1), on the
\* rows that a first run stored without dropping a constraint leaves Gx, Gy
\* and h as they are and computes the offset (0, 0).
C22_ConditionerIsIdempotent ==
    Conditioned /\ prog.n = args.n => SamePass(prog, SecondPass(prog))

\* What the code keeps of C22: the second run changes nothing when the first
\* offset was the least-squares solution (equal diagonal entries of G.T G,
\* or determinant zero).
IdempotentWithEqualDiagonal ==
    /\ Conditioned
    /\ prog.n = args.n
    /\ \/ StoredDet(prog) = Zero
       \/ DotRows(prog.Gx, prog.Gx, prog.n) = DotRows(prog.Gy, prog.Gy, prog.n)
    => SamePass(prog, SecondPass(prog))

\* The constraint g of the caller with its direction rotated by R.
Rotated(R, g) ==
    <<Add(Mul(R.a11, g[1]), Mul(R.a12, g[2])), Add(Mul(R.a21, g[1]), Mul(R.a22, g[2])), g[3]>>

\* The constraints of the call a, rotated, whose direction is not near zero
\* in both components, in their order.
RECURSIVE KeptFrom(_, _, _)
KeptFrom(R, a, i) ==
    IF i >= a.n THEN <<>>
    ELSE IF feq_(Rotated(R, a.G[i])[1], Zero) /\ feq_(Rotated(R, a.G[i])[2], Zero)
         THEN KeptFrom(R, a, i + 1)
         ELSE <<Rotated(R, a.G[i])>> \o KeptFrom(R, a, i + 1)

\* Row j of the workspace p is the rotated constraint g divided by the
\* largest absolute value of its direction, with h shifted by the offset o.
IsNormalised(p, j, g) ==
    /\ Mul(p.Gx[j], g[2]) = Mul(p.Gy[j], g[1])
    /\ Gt(Add(Mul(p.Gx[j], g[1]), Mul(p.Gy[j], g[2])), Zero)
    /\ fmax_(fabs(p.Gx[j]), fabs(p.Gy[j])) = One
    /\ Mul(Add(p.h[j], Add(Mul(p.o.x, p.Gx[j]), Mul(p.o.y, p.Gy[j]))),
           fmax_(fabs(g[1]), fabs(g[2]))) = g[3]

\* C23: after the conditioner has returned TRUE the workspace holds the
\* constraints of the call whose rotated direction is not near zero, in their
\* order, n is their number (at most the capacity), the constraints with
\* zero direction (and h <= 0) are gone, and every stored row has
\* max(|Gx|, |Gy|) = 1.
C23_StoredRowsAreKeptRows ==
    Conditioned
        => /\ prog.n = Len(KeptFrom(prog.R, args, 0))
           /\ 0 <= prog.n /\ prog.n <= prog.capacity
           /\ \A j \in 0..(prog.n - 1) : IsNormalised(prog, j, KeptFrom(prog.R, args, 0)[j + 1])

\* The conditioner has dropped the first of MaxN constraints, rotated the
\* others by an objective off the axes and rescaled one of them.
C23_Witness ==
    /\ Conditioned
    /\ args.n = MaxN
    /\ prog.n = MaxN - 1
    /\ args.G[0][1] = Zero /\ args.G[0][2] = Zero
    /\ args.cx # Zero /\ args.cy # Zero
    /\ \E j \in 0..(prog.n - 1) : prog.Gx[j] # args.G[j + 1][1]

\* The matrix R is orthogonal with determinant 1.
IsRotation(R) ==
    /\ Add(Mul(R.a11, R.a11), Mul(R.a21, R.a21)) = One
    /\ Add(Mul(R.a12, R.a12), Mul(R.a22, R.a22)) = One
    /\ Add(Mul(R.a11, R.a12), Mul(R.a21, R.a22)) = Zero
    /\ Sub(Mul(R.a11, R.a22), Mul(R.a12, R.a21)) = One

\* The second component of R * (vx, vy).
ImageY(R, vx, vy) == Add(Mul(R.a21, vx), Mul(R.a22, vy))

\* R maps (vx, vy) onto the y axis, to a point at the distance of (vx, vy)
\* from the origin.
MapsToAxis(R, vx, vy) ==
    /\ Add(Mul(R.a11, vx), Mul(R.a12, vy)) = Zero
    /\ Mul(ImageY(R, vx, vy), ImageY(R, vx, vy)) = Add(Mul(vx, vx), Mul(vy, vy))

Categorized ==
    /\ pc \in {"yoffset", "loop", "done"}
    /\ iterations = 0
    /\ ~Rejected(prog_, prog, args.n)
    /\ ~ContradictoryConstraint(args)

\* The index i is among the first len entries of list.
InList(list, len, i) == \E k \in 0..(len - 1) : list[k] = i

\* The first len entries of list ascend (so none occurs twice) and are
\* indices below n.
Ascending(list, len, n) ==
    /\ \A k \in 0..(len - 1) : 0 <= list[k] /\ list[k] < n
    /\ \A k \in 1..(len - 1) : list[k - 1] < list[k]

\* The vertical rows of the workspace p (Gy near zero).
Verticals(p) == {i \in 0..(p.n - 1) : feq_(p.Gy[i], Zero)}

\* x0 is the largest bound h / Gx of the vertical rows with Gx > 0 and x1 the
\* smallest bound of those with Gx < 0 (minus and plus infinity without such
\* a row).
TightenedByVerticals(p) ==
    /\ \A i \in Verticals(p) :
          IF Gt(p.Gx[i], Zero) THEN Ge(p.x0, Div(p.h[i], p.Gx[i]))
          ELSE Le(p.x1, Div(p.h[i], p.Gx[i]))
    /\ \/ p.x0 = Neg(HUGE_VAL)
       \/ \E i \in Verticals(p) : Gt(p.Gx[i], Zero) /\ p.x0 = Div(p.h[i], p.Gx[i])
    /\ \/ p.x1 = HUGE_VAL
       \/ \E i \in Verticals(p) : Lt(p.Gx[i], Zero) /\ p.x1 = Div(p.h[i], p.Gx[i])

\* C25: after the categorizer every row i < n is in the floor list iff
\* Gy[i] > 0, in the ceil list iff Gy[i] < 0 and in neither iff Gy[i] is near
\* zero (then it bounds x0 or x1); both lists ascend without duplicates, and
\* ceil_len + floor_len + the number of vertical rows is n.
C25_CategorizerPartitions ==
    Categorized
        => /\ \A i \in 0..(prog.n - 1) :
                 /\ InList(prog.floor, prog.floor_len, i) <=> Gt(prog.Gy[i], Zero)
                 /\ InList(prog.ceil, prog.ceil_len, i) <=> Lt(prog.Gy[i], Zero)
                 /\ (~InList(prog.floor, prog.floor_len, i) /\ ~InList(prog.ceil, prog.ceil_len, i))
                       <=> i \in Verticals(prog)
           /\ Ascending(prog.floor, prog.floor_len, prog.n)
           /\ Ascending(prog.ceil, prog.ceil_len, prog.n)
           /\ prog.ceil_len + prog.floor_len + Cardinality(Verticals(prog)) = prog.n
           /\ TightenedByVerticals(prog)

\* The categorizer has sorted MaxN rows into a floor, a ceiling and a vertical
\* bound.
C25_Witness ==
    /\ Categorized
    /\ pc = "yoffset"
    /\ prog.n = MaxN
    /\ prog.floor_len = 1
    /\ prog.ceil_len = 1
    /\ Cardinality(Verticals(prog)) = MaxN - 2
    /\ prog.x0 # Neg(HUGE_VAL)

\* The list that the last call of linprog2d_calculate_intersects rewrote, and
\* its length.
NewList == IF pc = "ceil" THEN prog.ceil ELSE prog.floor

NewLen == IF pc = "ceil" THEN prog.ceil_len ELSE prog.floor_len

\* The element of the set S of numbers with j elements of S below it.
Nth(S, j) == CHOOSE s \in S : Cardinality({t \in S : t < s}) = j

\* The list new of length len is made of the list L of length m with the
\* pairs S retained and the pairs E each reduced to one of its members:
\* the members of the retained pairs first, adjacent and in their order, then
\* the survivors in pair order, then the unpaired last entry of L.
Reassembled(L, m, new, len, S, E) ==
    /\ len = 2 * Cardinality(S) + Cardinality(E) + (m % 2)
    /\ \A j \in 0..(Cardinality(S) - 1) :
          /\ new[2 * j] = L[2 * Nth(S, j)]
          /\ new[2 * j + 1] = L[2 * Nth(S, j) + 1]
    /\ \A j \in 0..(Cardinality(E) - 1) :
          new[2 * Cardinality(S) + j] \in {L[2 * Nth(E, j)], L[2 * Nth(E, j) + 1]}
    /\ m % 2 = 1 => new[len - 1] = L[m - 1]

\* One x-coordinate was appended to x_intersect for each pair of S, in
\* order: that of the point where the two rows of the pair cross.
Appended(p, L, before, S) ==
    /\ p.intersect_len = before + Cardinality(S)
    /\ \A j \in 0..(Cardinality(S) - 1) :
          p.x_intersect[before + j] =
              linprog2d_calculate_intersect(
                  p.Gx[L[2 * Nth(S, j)]], p.Gy[L[2 * Nth(S, j)]], p.h[L[2 * Nth(S, j)]],
                  p.Gx[L[2 * Nth(S, j) + 1]], p.Gy[L[2 * Nth(S, j) + 1]],
                  p.h[L[2 * Nth(S, j) + 1]]).x

\* C26: linprog2d_calculate_intersects turns a list L of length m into the
\* members of the retained pairs (adjacent, in order), then one survivor of
\* each eliminated pair in pair order, then the unpaired last entry when m is
\* odd; the length is m less the number of eliminated pairs, every entry was
\* in L, none occurs twice, and x_intersect has grown by one x-coordinate per
\* retained pair.
C26_IntersectsReassembles ==
    pc \in {"ceil", "floor"}
        => /\ \E S \in SUBSET (0..((args.m \div 2) - 1)) :
                 /\ Reassembled(args.L, args.m, NewList, NewLen, S,
                                (0..((args.m \div 2) - 1)) \ S)
                 /\ Appended(prog, args.L, args.before, S)
                 /\ NewLen = args.m - Cardinality((0..((args.m \div 2) - 1)) \ S)
           /\ \A k \in 0..(NewLen - 1) : InList(args.L, args.m, NewList[k])
           /\ \A k, l \in 0..(NewLen - 1) : NewList[k] = NewList[l] => k = l

\* The function has reduced a floor list of four entries to a retained pair
\* and the survivor of an eliminated pair that came first, after a call for
\* the ceil list that has recorded an intersection.
C26_Witness ==
    /\ pc = "floor"
    /\ args.m = 4
    /\ args.before = 1
    /\ prog.floor_len = 3
    /\ prog.intersect_len = 2
    /\ prog.floor[0] = args.L[2]
    /\ prog.floor[1] = args.L[3]
    /\ prog.floor[2] \in {args.L[0], args.L[1]}

\* The step is an iteration of the while loop of the call.
IsIteration == pc = "loop" /\ iterations' = iterations + 1

\* C27: an iteration of the pruning loop records at least one intersection
\* point or takes one constraint out of every pair of both lists (m / 2,
\* rounded down, of a list of length m), so that floor_len + ceil_len
\* decreases in an iteration that records no intersection; floor_len +
\* ceil_len never grows, and floor_len does not become zero in the loop.
C27_IterationMakesProgress ==
    [][IsIteration
         => /\ \/ prog'.intersect_len >= 1
               \/ /\ prog'.floor_len = prog.floor_len - (prog.floor_len \div 2)
                  /\ prog'.ceil_len = prog.ceil_len - (prog.ceil_len \div 2)
            /\ prog'.intersect_len = 0
                  => prog'.floor_len + prog'.ceil_len < prog.floor_len + prog.ceil_len
            /\ prog'.floor_len + prog'.ceil_len <= prog.floor_len + prog.ceil_len
            /\ prog'.floor_len # 0]_vars

\* An iteration that recorded no intersection has left one floor and one
\* ceiling, and the loop goes on after an iteration before it.
C27_Witness ==
    /\ pc = "loop"
    /\ iterations >= 2
    /\ prog.intersect_len = 0
    /\ prog.floor_len = 1
    /\ prog.ceil_len = 1

\* The two calls of one iteration, with lists of up to two pairs: they record
\* an intersection or take one constraint out of every pair of both lists.
BothListsReduced ==
    pc = "floor"
        => \/ prog.intersect_len >= 1
           \/ /\ prog.floor_len = args.m - (args.m \div 2)
              /\ prog.ceil_len = args.ceil_m - (args.ceil_m \div 2)

\* The step is an iteration that has recorded intersections and after which
\* the loop goes on: the locator has answered LOC_LEFT or LOC_RIGHT.
IsSearchStep == IsIteration /\ pc' = "loop" /\ prog'.intersect_len >= 1

\* C28: in an iteration that records intersections and goes on, the interval
\* [x0, x1] shrinks strictly: x1 decreases when the optimum is to the left of
\* the median, x0 increases when it is to the right.
C28_IntervalShrinks ==
    [][IsSearchStep
         => IF optimum_is_left'
            THEN Lt(prog'.x1, prog.x1) /\ prog'.x0 = prog.x0
            ELSE Gt(prog'.x0, prog.x0) /\ prog'.x1 = prog.x1]_vars

\* C28, amended: in such an iteration the interval does not grow and only the
\* bound on the side of the optimum moves: x1 becomes min(x1, median) when the
\* optimum is to the left, x0 becomes max(x0, median) when it is to the
\* right; the bound stays where it was only when the median lies on it.
C28_IntervalShrinksOrMedianOnBound ==
    [][IsSearchStep
         => IF optimum_is_left'
            THEN /\ prog'.x0 = prog.x0
                 /\ Le(prog'.x1, prog.x1)
                 /\ Lt(prog'.x1, prog.x1) \/ x' = prog.x1
            ELSE /\ prog'.x1 = prog.x1
                 /\ Ge(prog'.x0, prog.x0)
                 /\ Gt(prog'.x0, prog.x0) \/ x' = prog.x0]_vars

\* The first iteration has recorded an intersection on the bound x0 that a
\* vertical row had set; the locator has answered LOC_RIGHT and the loop goes
\* on with x0 where it was.
C28_Witness ==
    /\ pc = "loop"
    /\ iterations = 1
    /\ prog.intersect_len >= 1
    /\ has_median
    /\ ~optimum_is_left
    /\ x = prog.x0
    /\ ~ContradictoryConstraint(args)
    /\ \E i \in Verticals(prog) : Gt(prog.Gx[i], Zero) /\ Div(prog.h[i], prog.Gx[i]) = prog.x0

\* The step belongs to the call: it is one of the steps between the reset
\* and the verdict.
IsSolveStep == pc \in {"condition", "categorize", "yoffset", "loop"}

\* The value v lies in the interval [x0, x1] of the workspace p.
InInterval(p, v) == Ge(v, p.x0) /\ Le(v, p.x1)

\* C29: between the reset and the verdict of a call no step lowers the
\* stored x0 or raises the stored x1; an iteration of the loop starts with
\* x0 <= x1, and every intersection it records and the median it computes lie
\* in the interval [x0, x1] it started with.
C29_IntervalIsMonotone ==
    [][/\ IsSolveStep => Ge(prog'.x0, prog.x0) /\ Le(prog'.x1, prog.x1)
       /\ IsIteration
             => /\ Le(prog.x0, prog.x1)
                /\ \A k \in 0..(prog'.intersect_len - 1) :
                      InInterval(prog, prog'.x_intersect[k])
                /\ prog'.intersect_len >= 1 => InInterval(prog, x')]_vars

\* C29 for the calls whose conditioner ran to its end.
IntervalIsMonotoneWhenConditioned ==
    [][~ContradictoryConstraint(args') =>
       /\ IsSolveStep => Ge(prog'.x0, prog.x0) /\ Le(prog'.x1, prog.x1)
       /\ IsIteration
             => /\ Le(prog.x0, prog.x1)
                /\ \A k \in 0..(prog'.intersect_len - 1) :
                      InInterval(prog, prog'.x_intersect[k])
                /\ prog'.intersect_len >= 1 => InInterval(prog, x')]_vars

\* C29 for every call, with "never decreases" and "never increases" read as
\* "is not lower" and "is not higher than before", which a bound that has
\* become NaN satisfies.
IntervalNeverWidens ==
    [][/\ IsSolveStep => ~Lt(prog'.x0, prog.x0) /\ ~Gt(prog'.x1, prog.x1)
       /\ IsIteration
             => /\ Le(prog.x0, prog.x1)
                /\ \A k \in 0..(prog'.intersect_len - 1) :
                      InInterval(prog, prog'.x_intersect[k])
                /\ prog'.intersect_len >= 1 => InInterval(prog, x')]_vars

\* The cursors and the intersection count with which the pairing loop and the
\* odd-element step of a call of linprog2d_calculate_intersects on the list
\* idcs end, before the list is reassembled.
CursorsAfter(p, idcs, idcs_len, is_ceil) ==
    IntersectsOdd(idcs, idcs_len,
      IntersectsLoop(p, idcs, idcs_len, is_ceil, has_median, x, optimum_is_left, 0,
        [tmp |-> p.tmp, i_tar_pair |-> 0, i_tar_single |-> p.n - 1,
         x_intersect |-> p.x_intersect, intersect_len |-> p.intersect_len]))

\* The pair cursor only grows and the single cursor only falls, so the values
\* at the end bound every write: pairs went to 0..i_tar_pair-1, singles to
\* i_tar_single+1..n-1.
CursorsInBounds(p, st) ==
    /\ 0 <= st.i_tar_pair
    /\ st.i_tar_pair <= st.i_tar_single + 1
    /\ 0 <= st.i_tar_single
    /\ st.i_tar_single <= p.n - 1
    /\ st.intersect_len <= p.n \div 2

\* The first len entries of a list are indices of constraints, and the list is
\* not longer than the number of constraints.
ListInBounds(p, list, len) ==
    /\ len <= p.n
    /\ \A k \in 0..(len - 1) : list[k] \in 0..(p.n - 1)

\* Every cell of tmp that has been written holds an index of a constraint.
TmpInBounds(p) ==
    \A k \in DOMAIN p.tmp : p.tmp[k] # -1 => (k < p.n /\ p.tmp[k] \in 0..(p.n - 1))

\* An iteration of the loop is about to run.
IterationPending == pc = "loop" /\ LoopCondition(prog) /\ iterations < MaxIterations(args.n)

\* The workspace between the two pruning calls of the pending iteration.
AfterPruneCeil == PruneCeil([prog EXCEPT !.intersect_len = 0], has_median, x, optimum_is_left)

PairsCursorsInBounds ==
    /\ ListInBounds(prog, prog.ceil, prog.ceil_len)
    /\ ListInBounds(prog, prog.floor, prog.floor_len)
    /\ TmpInBounds(prog)
    /\ prog.intersect_len <= prog.n \div 2
    /\ pc = "idle" => CursorsInBounds(prog, CursorsAfter([prog EXCEPT !.intersect_len = 0],
                                                         prog.ceil, prog.ceil_len, TRUE))
    /\ pc = "ceil" => CursorsInBounds(prog, CursorsAfter(prog, prog.floor,
                                                         prog.floor_len, FALSE))
====
